---- MODULE Spec2Model ----
(***************************************************************************)
(* A model of nayan: the move inference of pkg/chess/board.go and the      *)
(* frame-loop game logic (debounce, settle delay, invalid-move flag) of    *)
(* cmd/app/main.go.                                                        *)
(*                                                                         *)
(* The rules library github.com/notnil/chess is a dependency of the        *)
(* repository.  The model carries a rules engine of its own (piece moves,  *)
(* check, castling, en passant, promotion) in its place, reached from the  *)
(* repository's code only through the calls the code makes: ValidMoves,    *)
(* Update, Board/Piece, Turn and Game.Move.                                *)
(*                                                                         *)
(* Display-only state of main.go (debug views, labels, overlay counters,   *)
(* lastOccupancy used for logging) is not part of the model.               *)
(***************************************************************************)
EXTENDS Integers, Sequences, FiniteSets, TLC

(***************************************************************************)
(* Squares, pieces, grids                                                  *)
(***************************************************************************)

\* chess.Square: A1 = 0, B1 = 1, ..., H8 = 63
Squares == 0..63

File(sq) == sq % 8

Rank(sq) == sq \div 8

NewSquare(f, r) == r * 8 + f

NoPiece == [color |-> "none", type |-> "none"]

Pc(c, t) == [color |-> c, type |-> t]

Other(c) == IF c = "w" THEN "b" ELSE "w"

\* the conversion without the flip of the rows
SquareFromRowColUnflipped(row, col) == NewSquare(col, row)

\* Vision grid: row 0 = rank 8 (top of board), col 0 = file a (left).
SquareFromRowCol(row, col) == NewSquare(col, 7 - row)

RowColFromSquare(sq) == <<7 - Rank(sq), File(sq)>>

Rows == 0..7

\* [8][8]bool
EmptyGrid == [r \in Rows |-> [c \in Rows |-> FALSE]]

\* occupancyFromBoard: every square that holds a piece sets occ[row][col].
occupancyFromBoard(board) ==
    LET occupied == {RowColFromSquare(sq) : sq \in {s \in Squares : board[s] # NoPiece}}
    IN  [r \in Rows |-> [c \in Rows |-> <<r, c>> \in occupied]]

(***************************************************************************)
(* The rules engine (notnil/chess), as the repository's code uses it       *)
(***************************************************************************)

OnBoard(sq, d, k) ==
    /\ File(sq) + k * d[1] \in 0..7
    /\ Rank(sq) + k * d[2] \in 0..7

Step(sq, d, k) == NewSquare(File(sq) + k * d[1], Rank(sq) + k * d[2])

RookDirs == {<<1, 0>>, <<-1, 0>>, <<0, 1>>, <<0, -1>>}

BishopDirs == {<<1, 1>>, <<1, -1>>, <<-1, 1>>, <<-1, -1>>}

KingDirs == RookDirs \cup BishopDirs

KnightDirs == {<<1, 2>>, <<2, 1>>, <<-1, 2>>, <<-2, 1>>,
               <<1, -2>>, <<2, -1>>, <<-1, -2>>, <<-2, -1>>}

SlideDirs(t) ==
    CASE t = "R" -> RookDirs
      [] t = "B" -> BishopDirs
      [] t = "Q" -> KingDirs
      [] OTHER -> {}

NoSquare == 0 - 1

\* the squares from sq along d, from the k-th on, up to and including the first occupied one
RECURSIVE Ray(_, _, _, _)
Ray(board, sq, d, k) ==
    IF ~OnBoard(sq, d, k) THEN {}
    ELSE IF board[Step(sq, d, k)] # NoPiece THEN {Step(sq, d, k)}
    ELSE {Step(sq, d, k)} \cup Ray(board, sq, d, k + 1)

SlideTargets(board, sq, d) == Ray(board, sq, d, 1)

\* the first occupied square from sq along d, from the k-th on
RECURSIVE RayHit(_, _, _, _)
RayHit(board, sq, d, k) ==
    IF ~OnBoard(sq, d, k) THEN NoSquare
    ELSE IF board[Step(sq, d, k)] # NoPiece THEN Step(sq, d, k)
    ELSE RayHit(board, sq, d, k + 1)

JumpTargets(sq, dirs) == {Step(sq, d, 1) : d \in {e \in dirs : OnBoard(sq, e, 1)}}

PawnDir(c) == IF c = "w" THEN 1 ELSE -1

PawnStartRank(c) == IF c = "w" THEN 1 ELSE 6

PromoRank(c) == IF c = "w" THEN 7 ELSE 0

PawnCaptureTargets(sq, c) == JumpTargets(sq, {<<1, PawnDir(c)>>, <<-1, PawnDir(c)>>})

\* the squares the piece on sq attacks
AttackSet(board, sq) ==
    LET p == board[sq]
    IN  CASE p.type = "P" -> PawnCaptureTargets(sq, p.color)
          [] p.type = "N" -> JumpTargets(sq, KnightDirs)
          [] p.type = "K" -> JumpTargets(sq, KingDirs)
          [] p.type \in {"R", "B", "Q"} ->
                UNION {SlideTargets(board, sq, d) : d \in SlideDirs(p.type)}
          [] OTHER -> {}

\* a piece of colour `by` attacks sq: looked up from sq outwards
Attacked(board, sq, by) ==
    \/ \E t \in JumpTargets(sq, KnightDirs) : board[t] = Pc(by, "N")
    \/ \E t \in JumpTargets(sq, KingDirs) : board[t] = Pc(by, "K")
    \/ \E t \in PawnCaptureTargets(sq, Other(by)) : board[t] = Pc(by, "P")
    \/ \E d \in KingDirs :
          LET hit == RayHit(board, sq, d, 1)
          IN  /\ hit # NoSquare
              /\ board[hit].color = by
              /\ d \in SlideDirs(board[hit].type)

KingSquare(board, c) == CHOOSE s \in Squares : board[s] = Pc(c, "K")

InCheck(board, c) == Attacked(board, KingSquare(board, c), Other(c))

\* destinations of the piece on sq before the own-king test (no castling)
PossibleMoves(pos, sq) ==
    LET board == pos.board
        p == board[sq]
        fwd == <<0, PawnDir(p.color)>>
    IN  IF p.type = "P"
        THEN {t \in PawnCaptureTargets(sq, p.color) :
                  board[t].color = Other(p.color) \/ t = pos.ep}
             \cup (IF OnBoard(sq, fwd, 1) /\ board[Step(sq, fwd, 1)] = NoPiece
                   THEN {Step(sq, fwd, 1)}
                        \cup (IF /\ Rank(sq) = PawnStartRank(p.color)
                                 /\ board[Step(sq, fwd, 2)] = NoPiece
                              THEN {Step(sq, fwd, 2)} ELSE {})
                   ELSE {})
        ELSE {t \in AttackSet(board, sq) : board[t].color # p.color}

IsCastle(board, m) ==
    board[m.s1].type = "K" /\ (File(m.s2) - File(m.s1)) \in {2, -2}

IsEnPassant(pos, m) ==
    /\ pos.board[m.s1].type = "P"
    /\ m.s2 = pos.ep
    /\ File(m.s1) # File(m.s2)

\* the board after the move (captures, en passant, castling, promotion)
MoveBoard(pos, m) ==
    LET board == pos.board
        p == board[m.s1]
        placed == IF m.promo = "none" THEN p ELSE Pc(p.color, m.promo)
        b1 == [board EXCEPT ![m.s1] = NoPiece, ![m.s2] = placed]
        b2 == IF IsEnPassant(pos, m)
              THEN [b1 EXCEPT ![NewSquare(File(m.s2), Rank(m.s1))] = NoPiece]
              ELSE b1
    IN  IF IsCastle(board, m)
        THEN IF File(m.s2) > File(m.s1)
             THEN [b2 EXCEPT ![NewSquare(7, Rank(m.s1))] = NoPiece,
                             ![NewSquare(5, Rank(m.s1))] = Pc(p.color, "R")]
             ELSE [b2 EXCEPT ![NewSquare(0, Rank(m.s1))] = NoPiece,
                             ![NewSquare(3, Rank(m.s1))] = Pc(p.color, "R")]
        ELSE b2

\* castling rights lost by a move from s1 to s2
LostRights(s1, s2) ==
    LET touched == {s1, s2}
    IN  (IF 4 \in touched THEN {"K", "Q"} ELSE {})
        \cup (IF 7 \in touched THEN {"K"} ELSE {})
        \cup (IF 0 \in touched THEN {"Q"} ELSE {})
        \cup (IF 60 \in touched THEN {"k", "q"} ELSE {})
        \cup (IF 63 \in touched THEN {"k"} ELSE {})
        \cup (IF 56 \in touched THEN {"q"} ELSE {})

\* Position.Update: the position after the move
Update(pos, m) ==
    LET p == pos.board[m.s1]
    IN  [board  |-> MoveBoard(pos, m),
         turn   |-> Other(pos.turn),
         castle |-> pos.castle \ LostRights(m.s1, m.s2),
         ep     |-> IF p.type = "P" /\ (Rank(m.s2) - Rank(m.s1)) \in {2, -2}
                    THEN NewSquare(File(m.s1), (Rank(m.s1) + Rank(m.s2)) \div 2)
                    ELSE NoSquare]

Mv(s1, s2, promo) == [s1 |-> s1, s2 |-> s2, promo |-> promo]

\* a move that does not leave the mover's king (on square king before it) attacked
KingSafe(pos, m, king) ==
    ~Attacked(MoveBoard(pos, m), IF m.s1 = king THEN m.s2 ELSE king, Other(pos.turn))

RECURSIVE SortedSeq(_)
SortedSeq(S) ==
    IF S = {} THEN <<>>
    ELSE LET x == CHOOSE y \in S : \A z \in S : y <= z
         IN  <<x>> \o SortedSeq(S \ {x})

RECURSIVE Flatten(_)
Flatten(ss) == IF ss = <<>> THEN <<>> ELSE Head(ss) \o Flatten(Tail(ss))

\* allPieces order of the library: king, queen, rook, bishop, knight, pawn
PieceOrder == <<"K", "Q", "R", "B", "N", "P">>

\* promoPieceTypes order of the library
PromoOrder == <<"Q", "R", "B", "N">>

MovesFromTo(pos, s1, s2, king) ==
    LET p == pos.board[s1]
        cands == IF p.type = "P" /\ Rank(s2) = PromoRank(p.color)
                 THEN [i \in 1..4 |-> Mv(s1, s2, PromoOrder[i])]
                 ELSE <<Mv(s1, s2, "none")>>
    IN  SelectSeq(cands, LAMBDA m : KingSafe(pos, m, king))

MovesFrom(pos, s1, king) ==
    LET ts == SortedSeq(PossibleMoves(pos, s1))
    IN  Flatten([i \in 1..Len(ts) |-> MovesFromTo(pos, s1, ts[i], king)])

(***************************************************************************)
(* Positions                                                               *)
(***************************************************************************)

wK == Pc("w", "K")
wQ == Pc("w", "Q")
wR == Pc("w", "R")
wB == Pc("w", "B")
wN == Pc("w", "N")
wP == Pc("w", "P")
bK == Pc("b", "K")
bQ == Pc("b", "Q")
bR == Pc("b", "R")
bB == Pc("b", "B")
bN == Pc("b", "N")
bP == Pc("b", "P")
xx == NoPiece

\* a board from its eight ranks, rank 8 first (the order of a FEN string)
BoardFromRanks(rs) == [sq \in Squares |-> rs[8 - Rank(sq)][File(sq) + 1]]

EmptyRank == <<xx, xx, xx, xx, xx, xx, xx, xx>>

\* chess.NewGame(): the standard starting position
StartPos ==
    [board  |-> BoardFromRanks(<<
                  <<bR, bN, bB, bQ, bK, bB, bN, bR>>,
                  <<bP, bP, bP, bP, bP, bP, bP, bP>>,
                  EmptyRank, EmptyRank, EmptyRank, EmptyRank,
                  <<wP, wP, wP, wP, wP, wP, wP, wP>>,
                  <<wR, wN, wB, wQ, wK, wB, wN, wR>> >>),
     turn   |-> "w",
     castle |-> {"K", "Q", "k", "q"},
     ep     |-> NoSquare]

\* square names: file a..h = 0..7, rank 1..8 = 0..7
A7 == NewSquare(0, 6)
A6 == NewSquare(0, 5)
B8 == NewSquare(1, 7)
C4 == NewSquare(2, 3)
C5 == NewSquare(2, 4)
C6 == NewSquare(2, 5)
D5 == NewSquare(3, 4)
D7 == NewSquare(3, 6)
E1 == NewSquare(4, 0)
E2 == NewSquare(4, 1)
E3 == NewSquare(4, 2)
E4 == NewSquare(4, 3)
E5 == NewSquare(4, 4)
E7 == NewSquare(4, 6)
F1 == NewSquare(5, 0)
F3 == NewSquare(5, 2)
F8 == NewSquare(5, 7)
G1 == NewSquare(6, 0)
H5 == NewSquare(7, 4)
H1 == NewSquare(7, 0)
F2 == NewSquare(5, 1)
G2 == NewSquare(6, 1)
G4 == NewSquare(6, 3)
D8 == NewSquare(3, 7)
H4 == NewSquare(7, 3)
A8 == NewSquare(0, 7)
D4 == NewSquare(3, 3)

\* game.MoveStr applied in turn
RECURSIVE Play(_, _)
Play(pos, ms) ==
    IF ms = <<>> THEN pos
    ELSE Play(Update(pos, Mv(Head(ms)[1], Head(ms)[2], "none")), Tail(ms))

\* TestInferMoveCapture: 1. e4 e5 2. Nf3 d5
CapturePos == Play(StartPos, <<<<E2, E4>>, <<E7, E5>>, <<G1, F3>>, <<D7, D5>>>>)

\* TestInferMoveCastle: 1. e4 e5 2. Nf3 Nc6 3. Bc4 Bc5
CastlePos ==
    Play(StartPos, <<<<E2, E4>>, <<E7, E5>>, <<G1, F3>>, <<B8, C6>>,
                     <<F1, C4>>, <<F8, C5>>>>)

\* TestInferMoveWithColorDisambiguates:
\* rnbqkb1r/pppp1ppp/8/4p2n/8/8/PPPPQPPP/RNB1KBNR w KQkq - 2 3
AmbiguousPos ==
    [board  |-> BoardFromRanks(<<
                  <<bR, bN, bB, bQ, bK, bB, xx, bR>>,
                  <<bP, bP, bP, bP, xx, bP, bP, bP>>,
                  EmptyRank,
                  <<xx, xx, xx, xx, bP, xx, xx, bN>>,
                  EmptyRank, EmptyRank,
                  <<wP, wP, wP, wP, wQ, wP, wP, wP>>,
                  <<wR, wN, wB, xx, wK, wB, wN, wR>> >>),
     turn   |-> "w",
     castle |-> {"K", "Q", "k", "q"},
     ep     |-> NoSquare]

\* en passant available on d6: 1. e4 a6 2. e5 d5
EnPassantPos == Play(StartPos, <<<<E2, E4>>, <<A7, A6>>, <<E4, E5>>, <<D7, D5>>>>)

\* a pawn that promotes by a push (a8) or by a capture (b8): 1n2k3/P7/8/8/8/8/8/4K3 w - -
PromotionPos ==
    [board  |-> BoardFromRanks(<<
                  <<xx, bN, xx, xx, bK, xx, xx, xx>>,
                  <<wP, xx, xx, xx, xx, xx, xx, xx>>,
                  EmptyRank, EmptyRank, EmptyRank, EmptyRank, EmptyRank,
                  <<xx, xx, xx, xx, wK, xx, xx, xx>> >>),
     turn   |-> "w",
     castle |-> {},
     ep     |-> NoSquare]

\* Black to move after 1. e4
BlackToMovePos == Play(StartPos, <<<<E2, E4>>>>)

StandardMoves(pos) ==
    LET king == KingSquare(pos.board, pos.turn)
        ofType(t) ==
            LET ss == SortedSeq({s \in Squares : pos.board[s] = Pc(pos.turn, t)})
            IN  Flatten([i \in 1..Len(ss) |-> MovesFrom(pos, ss[i], king)])
    IN  Flatten([i \in 1..6 |-> ofType(PieceOrder[i])])

CastleMoves(pos) ==
    LET c == pos.turn
        r == IF c = "w" THEN 0 ELSE 7
        b == pos.board
        ks == IF c = "w" THEN "K" ELSE "k"
        qs == IF c = "w" THEN "Q" ELSE "q"
        free(fs) == \A f \in fs : b[NewSquare(f, r)] = NoPiece
        safe(fs) == \A f \in fs : ~Attacked(b, NewSquare(f, r), Other(c))
        kingSide == /\ ks \in pos.castle
                    /\ b[NewSquare(4, r)] = Pc(c, "K")
                    /\ b[NewSquare(7, r)] = Pc(c, "R")
                    /\ free({5, 6})
                    /\ safe({4, 5, 6})
        queenSide == /\ qs \in pos.castle
                     /\ b[NewSquare(4, r)] = Pc(c, "K")
                     /\ b[NewSquare(0, r)] = Pc(c, "R")
                     /\ free({1, 2, 3})
                     /\ safe({4, 3, 2})
    IN  (IF kingSide THEN <<Mv(NewSquare(4, r), NewSquare(6, r), "none")>> ELSE <<>>)
        \o (IF queenSide THEN <<Mv(NewSquare(4, r), NewSquare(2, r), "none")>> ELSE <<>>)

\* variant: the enumeration without the castling moves
ValidMovesNoCastle(pos) == StandardMoves(pos)

\* Position.ValidMoves: the legal moves, in the library's enumeration order
ValidMoves(pos) == StandardMoves(pos) \o CastleMoves(pos)

Range(s) == {s[i] : i \in 1..Len(s)}

(***************************************************************************)
(* pkg/chess: GameState                                                    *)
(***************************************************************************)

\* NewGame: a new game from the standard starting position
NewGame(humanColor) == [nil |-> FALSE, game |-> StartPos, HumanColor |-> humanColor]

\* ExpectedOccupancy: the occupancy grid of the current position
\* the grid filled by rank and file, rank 1 in row 0
ExpectedOccupancyUnflipped(gs) ==
    [r \in Rows |-> [c \in Rows |-> gs.game.board[NewSquare(c, r)] # NoPiece]]

ExpectedOccupancy(gs) == occupancyFromBoard(gs.game.board)

NoMove == Mv(NoSquare, NoSquare, "none")

\* variant: every legal move taken as a match, whatever the observed grid
MatchesAll(gs, observed) == ValidMoves(gs.game)

\* the legal moves whose simulated occupancy equals the observed grid
Matches(gs, observed) ==
    SelectSeq(ValidMoves(gs.game),
              LAMBDA m : occupancyFromBoard(Update(gs.game, m).board) = observed)

\* variant: the rook promotion preferred
PreferRook(matches) ==
    LET rooks == SelectSeq(matches, LAMBDA m : m.promo = "R")
    IN  IF rooks # <<>> THEN rooks[1] ELSE matches[1]

\* among several matches the first queen promotion, else the first match
PreferQueen(matches) ==
    LET queens == SelectSeq(matches, LAMBDA m : m.promo = "Q")
    IN  IF queens # <<>> THEN queens[1] ELSE matches[1]

\* var brightness [8][8]float64: the zero value
NoHint == [r \in Rows |-> [c \in Rows |-> 0]]

\* a brightness grid: the values of the squares in (square, value) pairs, 0 elsewhere
Bright(pairs) ==
    [r \in Rows |-> [c \in Rows |->
        IF \E p \in pairs : p[1] = SquareFromRowCol(r, c)
        THEN (CHOOSE p \in pairs : p[1] = SquareFromRowCol(r, c))[2]
        ELSE 0]]

\* the brightness grids of the tests, and the first with e5 and h5 exchanged
Hints ==
    {NoHint,
     Bright({<<E5, 180>>, <<H5, 80>>}),
     Bright({<<E5, 80>>, <<H5, 180>>}),
     Bright({<<E4, 170>>})}

\* the brightness read at the destination square of a move
DestBrightness(brightness, m) ==
    brightness[RowColFromSquare(m.s2)[1]][RowColFromSquare(m.s2)[2]]

\* InferMoveWithColor: InferMove with the brightness tie-break after the queen
\* preference: White's pieces read lighter, Black's darker; the first enumerated
\* candidate among those that remain
InferMoveWithColor(gs, observed, brightness) ==
    LET matches == Matches(gs, observed)
        queens == SelectSeq(matches, LAMBDA m : m.promo = "Q")
        cands == IF queens # <<>> THEN queens ELSE matches
        fits(a, b) == IF gs.game.turn = "w"
                      THEN DestBrightness(brightness, a) >= DestBrightness(brightness, b)
                      ELSE DestBrightness(brightness, a) <= DestBrightness(brightness, b)
        best == SelectSeq(cands, LAMBDA a : \A i \in 1..Len(cands) : fits(a, cands[i]))
    IN  IF Len(matches) = 0 THEN [move |-> NoMove, err |-> TRUE]
        ELSE IF Len(matches) = 1 THEN [move |-> matches[1], err |-> FALSE]
        ELSE [move |-> best[1], err |-> FALSE]

InferMoveFirst(gs, observed) ==
    LET matches == Matches(gs, observed)
        valid == ValidMoves(gs.game)
    IN  IF Len(matches) = 0
        THEN IF valid = <<>> THEN [move |-> NoMove, err |-> TRUE]
             ELSE [move |-> valid[1], err |-> FALSE]
        ELSE IF Len(matches) = 1 THEN [move |-> matches[1], err |-> FALSE]
        ELSE [move |-> PreferQueen(matches), err |-> FALSE]

\* InferMove: (move, error)
InferMove(gs, observed) ==
    LET matches == Matches(gs, observed)
    IN  IF Len(matches) = 0 THEN [move |-> NoMove, err |-> TRUE]
        ELSE IF Len(matches) = 1 THEN [move |-> matches[1], err |-> FALSE]
        ELSE [move |-> PreferQueen(matches), err |-> FALSE]

\* Game.Move: rejects a move that is not a valid move of the position
MoveAccepted(gs, m) == m \in Range(ValidMoves(gs.game))

\* variant: the move is dropped
ApplyMoveDropped(gs, m) == gs

\* ApplyMove: the game state after the move (unchanged when rejected)
ApplyMove(gs, m) ==
    IF MoveAccepted(gs, m) THEN [gs EXCEPT !.game = Update(gs.game, m)] ELSE gs

\* FEN: the serialised position
FEN(gs) == gs.game

\* variant: the human taken to play White
IsHumanTurnWhite(gs) == gs.game.turn = "w"

\* IsHumanTurn
IsHumanTurn(gs) ==
    IF gs.HumanColor = "White" THEN gs.game.turn = "w" ELSE gs.game.turn = "b"


\* Game.Outcome of the library: a side with no legal move is mated or stalemated
Outcome(pos) ==
    IF ValidMoves(pos) # <<>> THEN "NoOutcome"
    ELSE IF ~InCheck(pos.board, pos.turn) THEN "Draw"
    ELSE IF pos.turn = "w" THEN "BlackWon" ELSE "WhiteWon"

\* variant: no position ends the game
IsGameOverNever(gs) == FALSE

\* IsGameOver
IsGameOver(gs) == Outcome(gs.game) # "NoOutcome"

(***************************************************************************)
(* pkg/vision: ReorderPoints                                               *)
(***************************************************************************)

PX(p) == p[1]

PY(p) == p[2]

\* the loop body with the difference taken as x - y, which exchanges the two diff corners
ReorderStepSwapped(acc, p) ==
    LET sum == PX(p) + PY(p)
        diff == PX(p) - PY(p)
        a1 == IF sum < acc.minSum THEN [acc EXCEPT !.minSum = sum, !.tl = p] ELSE acc
        a2 == IF sum > a1.maxSum THEN [a1 EXCEPT !.maxSum = sum, !.br = p] ELSE a1
        a3 == IF diff < a2.minDiff THEN [a2 EXCEPT !.minDiff = diff, !.tr = p] ELSE a2
    IN  IF diff > a3.maxDiff THEN [a3 EXCEPT !.maxDiff = diff, !.bl = p] ELSE a3

\* one pass of the loop body over point p; acc = [minSum, maxSum, minDiff, maxDiff, tl, tr, br, bl]
ReorderStep(acc, p) ==
    LET sum == PX(p) + PY(p)
        diff == PY(p) - PX(p)
        a1 == IF sum < acc.minSum THEN [acc EXCEPT !.minSum = sum, !.tl = p] ELSE acc
        a2 == IF sum > a1.maxSum THEN [a1 EXCEPT !.maxSum = sum, !.br = p] ELSE a1
        a3 == IF diff < a2.minDiff THEN [a2 EXCEPT !.minDiff = diff, !.tr = p] ELSE a2
    IN  IF diff > a3.maxDiff THEN [a3 EXCEPT !.maxDiff = diff, !.bl = p] ELSE a3

RECURSIVE ReorderLoop(_, _)
ReorderLoop(acc, pts) ==
    IF pts = <<>> THEN acc ELSE ReorderLoop(ReorderStep(acc, Head(pts)), Tail(pts))

\* ReorderPoints: tl, tr, br, bl by sum and difference extrema
ReorderPoints(pts) ==
    IF Len(pts) # 4 THEN pts
    ELSE LET p0 == pts[1]
             acc == ReorderLoop([minSum |-> PX(p0) + PY(p0), maxSum |-> PX(p0) + PY(p0),
                                 minDiff |-> PY(p0) - PX(p0), maxDiff |-> PY(p0) - PX(p0),
                                 tl |-> p0, tr |-> p0, br |-> p0, bl |-> p0], pts)
         IN  <<acc.tl, acc.tr, acc.br, acc.bl>>

(***************************************************************************)
(* pkg/vision: BoardSmoother                                               *)
(***************************************************************************)

\* Alpha is held in tenths: Alpha = 3 stands for the float64 0.3
AlphaDen == 10

\* the jump threshold, and the relaxed one
BaseJump == 50

RelaxedJump == 150

\* FramesSinceDetected above which the threshold is relaxed, and above which the memory is cleared
RelaxAfter == 15

ResetAfter == 30

NewBoardSmoother(alpha) == [LastCorners |-> <<>>, Alpha |-> alpha, FramesSinceDetected |-> 0]

NoSmoothEv == [kind |-> "none", before |-> NewBoardSmoother(0), cand |-> <<>>,
               sortedNew |-> <<>>, out |-> <<>>, detections |-> 0, cleared |-> <<>>]

\* int(f) for the float64 f = n / AlphaDen: the fraction is dropped, towards zero
Truncate(n) == IF n >= 0 THEN n \div AlphaDen ELSE -((-n) \div AlphaDen)

\* a lerp that moves twice as far as alpha asks
LerpTwice(current, target, alpha) ==
    Truncate(current * AlphaDen + (target - current) * alpha * 2)

\* int(float64(current) + float64(target-current)*alpha)
Lerp(current, target, alpha) ==
    Truncate(current * AlphaDen + (target - current) * alpha)

\* DistanceBetweenPoints(p1, p2) > maxJump, compared on the squares: math.Sqrt is monotonic
\* and exact on the perfect squares
DistanceExceeds(p1, p2, maxJump) ==
    LET dx == PX(p2) - PX(p1)
        dy == PY(p2) - PY(p1)
    IN  dx * dx + dy * dy > maxJump * maxJump

\* the loop body with the jump test dropped
SmoothCornerAlways(last, new, maxJump, alpha) ==
    <<Lerp(PX(last), PX(new), alpha), Lerp(PY(last), PY(new), alpha)>>

\* one pass of the loop of Smooth: smoothed[i] from LastCorners[i] and sortedNew[i]
SmoothCorner(last, new, maxJump, alpha) ==
    IF DistanceExceeds(last, new, maxJump) THEN last
    ELSE <<Lerp(PX(last), PX(new), alpha), Lerp(PY(last), PY(new), alpha)>>

\* the branch of Smooth for a candidate without 4 points, never clearing the memory
SmoothMissKeep(s) == [s EXCEPT !.FramesSinceDetected = @ + 1]

\* the branch of Smooth for a candidate without 4 points
SmoothMiss(s) ==
    LET n == s.FramesSinceDetected + 1
    IN  [s EXCEPT !.FramesSinceDetected = n,
                  !.LastCorners = IF n > ResetAfter THEN <<>> ELSE @]

\* the threshold Smooth chooses, after it has set the counter back
MaxJump(s) == IF s.FramesSinceDetected > RelaxAfter THEN RelaxedJump ELSE BaseJump

\* the branch of Smooth for a 4-point candidate
SmoothHit(s, newCorners) ==
    LET s0 == [s EXCEPT !.FramesSinceDetected = 0]
        sortedNew == ReorderPoints(newCorners)
    IN  IF Len(s0.LastCorners) # 4 THEN [s0 EXCEPT !.LastCorners = sortedNew]
        ELSE [s0 EXCEPT !.LastCorners =
                  [i \in 1..4 |-> SmoothCorner(s0.LastCorners[i], sortedNew[i],
                                               MaxJump(s0), s0.Alpha)]]

\* Smooth: the smoother after the call; the value returned is its LastCorners
Smooth(s, newCorners) ==
    IF Len(newCorners) # 4 THEN SmoothMiss(s) ELSE SmoothHit(s, newCorners)

(***************************************************************************)
(* pkg/vision: DetectBoard                                                 *)
(*                                                                         *)
(* gocv's FindContours, ContourArea and ApproxPolyDP are the library's: a  *)
(* contour is given by what they return for it, its area and the vertices  *)
(* of its polygon approximation (<<>> for a nil approximation).            *)
(***************************************************************************)

\* the square of DistanceBetweenPoints(p1, p2)
DistanceSquared(p1, p2) ==
    LET dx == PX(p2) - PX(p1)
        dy == PY(p2) - PY(p1)
    IN  dx * dx + dy * dy

\* math.Abs(d1-d2)/d1 < 0.25, that is 0.75*d1 < d2 < 1.25*d1, compared on the squares;
\* with d1 = 0 the quotient is +Inf or NaN and the test fails
NearSquare(points) ==
    LET s1 == DistanceSquared(points[1], points[3])
        s2 == DistanceSquared(points[2], points[4])
    IN  9 * s1 < 16 * s2 /\ 16 * s2 < 25 * s1

\* area < minArea, with minArea = float64(rows*cols) * 0.10
TooSmall(area, imageArea) == area * 10 < imageArea

\* the loop body keeping the last of the largest contours
DetectStepLast(acc, cnt, imageArea) ==
    IF TooSmall(cnt.area, imageArea) THEN acc
    ELSE IF Len(cnt.approx) = 4 /\ NearSquare(cnt.approx) /\ cnt.area >= acc.maxArea
         THEN [maxArea |-> cnt.area, bestQuad |-> cnt.approx]
         ELSE acc

\* one pass of the loop of DetectBoard over contour cnt; acc = [maxArea, bestQuad]
DetectStep(acc, cnt, imageArea) ==
    IF TooSmall(cnt.area, imageArea) THEN acc
    ELSE IF Len(cnt.approx) = 4 /\ NearSquare(cnt.approx) /\ cnt.area > acc.maxArea
         THEN [maxArea |-> cnt.area, bestQuad |-> cnt.approx]
         ELSE acc

RECURSIVE DetectLoop(_, _, _)
DetectLoop(acc, contours, imageArea) ==
    IF contours = <<>> THEN acc
    ELSE DetectLoop(DetectStep(acc, Head(contours), imageArea), Tail(contours), imageArea)

\* DetectBoard: the quadrilateral found, <<>> for nil
DetectBoard(imageArea, contours) ==
    DetectLoop([maxArea |-> 0, bestQuad |-> <<>>], contours, imageArea).bestQuad

(***************************************************************************)
(* pkg/vision: ScanBoardAbsolute and ScanBoardDebug                        *)
(*                                                                         *)
(* gocv's CLAHE, GaussianBlur, Canny, MeanStdDev and CountNonZero are the  *)
(* library's: a frame is given by what they yield for each square's ROI,   *)
(* the greyscale stddev and the count of edge pixels.                      *)
(***************************************************************************)

absVarianceThreshold == 20

absEdgeThreshold == 6

absCombinedVarMin == 16

absCombinedEdgeMin == 3

\* GetSquare: the ROI is the 60x60 centre of a 100x100 square
RoiPixels == (100 - 2 * 20) * (100 - 2 * 20)

\* (edgePixels / totalPixels) * 100 > threshold; on a ROI of 3600 pixels the float64
\* comparison agrees with the exact one for every count
EdgePctOver(edgePixels, threshold) == edgePixels * 100 > threshold * RoiPixels

\* the test without its combined clause
AbsOccupiedEither(sd, edgePixels) ==
    sd > absVarianceThreshold \/ EdgePctOver(edgePixels, absEdgeThreshold)

\* sd > absVarianceThreshold || edgePct > absEdgeThreshold ||
\* (sd > absCombinedVarMin && edgePct > absCombinedEdgeMin)
AbsOccupied(sd, edgePixels) ==
    \/ sd > absVarianceThreshold
    \/ EdgePctOver(edgePixels, absEdgeThreshold)
    \/ sd > absCombinedVarMin /\ EdgePctOver(edgePixels, absCombinedEdgeMin)

\* ScanBoardAbsolute: a square starts false and is set when the test holds
ScanBoardAbsolute(frame) ==
    [row \in Rows |-> [col \in Rows |->
        IF AbsOccupied(frame[row][col].sd, frame[row][col].edgePixels)
        THEN TRUE ELSE EmptyGrid[row][col]]]

\* ScanBoardDebug: the grid, and metrics[row*8+col] for every square
ScanBoardDebug(frame) ==
    [occupancy |-> [row \in Rows |-> [col \in Rows |->
                       AbsOccupied(frame[row][col].sd, frame[row][col].edgePixels)]],
     metrics |-> [idx \in 0..63 |->
                     LET row == idx \div 8
                         col == idx % 8
                     IN  [Row |-> row, Col |-> col,
                          StdDev |-> frame[row][col].sd,
                          EdgePct |-> <<frame[row][col].edgePixels * 100, RoiPixels>>,
                          Occupied |-> AbsOccupied(frame[row][col].sd,
                                                   frame[row][col].edgePixels)]]]

(***************************************************************************)
(* cmd/app: state                                                          *)
(***************************************************************************)

VARIABLES
    calibMode,          \* calibIdle | calibSelecting | calibDone
    calibCorners,       \* the corners clicked so far
    manualCorners,      \* nil, or the final 4 corners for warping
    currentState,       \* statePreGame | statePlaying | stateGameOver
    gameState,          \* nil, or the GameState of the session
    stableDiffCount,
    pendingOcc,
    settling,
    sinceSettleStart,   \* settleStart, held as time.Since(settleStart), saturating at the delay
    invalidMoveActive,
    invalidSoundStop,   \* the stop channel: nil | open | closed
    alertLoops,         \* invalidMoveAlertLoop goroutines whose channel is not closed
    flashSquares,       \* the squares the board widget flashes red
    panicked,           \* a close of a nil or closed channel ended the program
    calibrations,       \* how many times a calibration was started
    session,            \* which *GameState gameState points to: the n-th NewGame
    stockfish,          \* the engine: nil | engine
    engineProcs,        \* engine processes started by NewEngine and not closed
    engineStarts,       \* engine-start goroutines that have not yet returned
    queries,            \* queryStockfish calls whose BestMove has not yet returned
    recommended,        \* the recommendation on display: none, or the query it answers
    ev,                 \* what the last step did (calls made, messages reported)
    hist,               \* history of the observed frames, kept beside the program's counters
    inferPos, inferObs, inferRes, inferPc,  \* a single InferMove call on given inputs
    inferHint,                              \* the brightness passed to InferMoveWithColor
    reorderPts, reorderOut, reorderPc,      \* ReorderPoints called on given points, and again
    smoother, smoothEv,                     \* a BoardSmoother, and what its last Smooth call did
    callArg, callRet, callPc                \* one call of a function of pkg/vision or pkg/chess

appVars == <<calibMode, calibCorners, manualCorners, currentState, gameState,
             stableDiffCount, pendingOcc, settling, sinceSettleStart,
             invalidMoveActive, invalidSoundStop, alertLoops, flashSquares,
             panicked, calibrations, session, stockfish, engineProcs, engineStarts,
             queries,
             recommended, ev, hist>>

engineVars == <<stockfish, engineProcs, engineStarts, queries>>

inferVars == <<inferPos, inferObs, inferRes, inferPc, inferHint>>

reorderVars == <<reorderPts, reorderOut, reorderPc>>

smoothVars == <<smoother, smoothEv>>

pureVars == <<callArg, callRet, callPc>>

\* the variables of the library calls other than InferMove
libVars == <<reorderVars, smoothVars, pureVars>>

\* the variables of the calls checked on their own
callVars == <<inferVars, libVars>>

vars == <<appVars, inferVars, libVars>>

stabilityThreshold == 5

\* the settle period, in clock ticks of one second
SettleDelay == 2

\* the most a frame may raise stableDiffCount to
MaxCount == 7

\* the times, in ticks, between two frames
DtValues == {0, 1}

\* the most calibrations the user starts
MaxCalibrations == 2

\* the history counts inferences on one grid, and matching frames in a row, up to here
MaxCycles == 2

MaxCalm == 2

\* the most games the user starts
MaxGames == 2

\* the queryStockfish calls in flight at a time
MaxQueries == 1

\* difficultySelect.Selected, as a number
Difficulties == {5, 10}

DefaultDifficulty == 5

NoRecommendation == [session |-> 0, asked |-> StartPos, shown |-> FALSE]

\* the nil *GameState: no session yet
NoGame == [nil |-> TRUE, game |-> StartPos, HumanColor |-> "White"]

NilCorners == "nil"

\* the clicks of the user, in click order: br, tl, bl, tr
CornerTaps == <<<<600, 440>>, <<40, 40>>, <<40, 440>>, <<600, 40>>>>

\* the squares on which the camera may see a change within one frame
ObsWindow == {E2, E3, E4}

Toggle(grid, D) ==
    [r \in Rows |-> [c \in Rows |->
        IF SquareFromRowCol(r, c) \in D THEN ~grid[r][c] ELSE grid[r][c]]]

\* the grids ScanBoardDebug may return: the expected one with at most two squares changed
Observations(expected) ==
    {Toggle(expected, D) : D \in {S \in SUBSET ObsWindow : Cardinality(S) <= 2}}

\* the colour selected in the colour radio group when Start Game is tapped
HumanColors == {"White"}

Min(a, b) == IF a < b THEN a ELSE b

\* the frame's copy of the 4 manual corners, taken with the mode under calibMu
Copy4(corners) == [i \in 1..4 |-> corners[i]]

\* what the frame warps with: the copied corners when it sees calibDone
Warped == IF calibMode = "calibDone" THEN Copy4(manualCorners) ELSE NilCorners

\* a clock after dt more ticks
Tick(clock, dt) == Min(clock + dt, SettleDelay)

NoEvent ==
    [kind |-> "none", logic |-> FALSE, occ |-> EmptyGrid, before |-> NoGame,
     aborted |-> FALSE, started |-> FALSE, dispatched |-> <<>>, returned |-> <<>>,
     difficulty |-> 0, shown |-> FALSE,
     infer |-> "none", move |-> NoMove, applied |-> <<>>, status |-> "none",
     warp |-> NilCorners]

NoHist == [run |-> 0, grid |-> EmptyGrid, sinceThreshold |-> SettleDelay,
           inferRun |-> 0, sinceFifth |-> SettleDelay, due |-> FALSE, countSeen |-> 0,
           cycles |-> 0, calm |-> 0]

AppInit ==
    /\ calibMode = "calibIdle"
    /\ calibCorners = <<>>
    /\ manualCorners = NilCorners
    /\ currentState = "statePreGame"
    /\ gameState = NoGame
    /\ stableDiffCount = 0
    /\ pendingOcc = EmptyGrid
    /\ settling = FALSE
    /\ sinceSettleStart = SettleDelay
    /\ invalidMoveActive = FALSE
    /\ invalidSoundStop = "nil"
    /\ alertLoops = 0
    /\ flashSquares = <<>>
    /\ panicked = FALSE
    /\ calibrations = 0
    /\ session = 0
    /\ stockfish = "nil"
    /\ engineProcs = 0
    /\ engineStarts = 0
    /\ queries = {}
    /\ recommended = NoRecommendation
    /\ ev = NoEvent
    /\ hist = NoHist

InferIdle ==
    /\ inferPos = StartPos
    /\ inferObs = EmptyGrid
    /\ inferRes = [move |-> NoMove, err |-> FALSE]
    /\ inferPc = "idle"
    /\ inferHint = NoHint

ReorderIdle ==
    /\ reorderPts = <<>>
    /\ reorderOut = <<>>
    /\ reorderPc = "idle"

SmoothIdle ==
    /\ smoother = NewBoardSmoother(0)
    /\ smoothEv = NoSmoothEv

PureIdle ==
    /\ callArg = <<>>
    /\ callRet = <<>>
    /\ callPc = "idle"

LibIdle == ReorderIdle /\ SmoothIdle /\ PureIdle

Init == AppInit /\ InferIdle /\ LibIdle


(***************************************************************************)
(* cmd/app: the control surface                                            *)
(***************************************************************************)

\* variant: the corners collected so far are kept
startCalibrationKeepCorners ==
    /\ calibrations < MaxCalibrations
    /\ calibrations' = calibrations + 1
    /\ calibMode' = "calibSelecting"
    /\ calibCorners' = calibCorners
    /\ manualCorners' = NilCorners

\* startCalibration
startCalibration ==
    /\ calibrations < MaxCalibrations
    /\ calibrations' = calibrations + 1
    /\ calibMode' = "calibSelecting"
    /\ calibCorners' = <<>>
    /\ manualCorners' = NilCorners

\* calibrateBtn
CalibrateTap ==
    /\ ~panicked
    /\ startCalibration
    /\ ev' = NoEvent
    /\ UNCHANGED <<currentState, gameState, stableDiffCount, pendingOcc, settling,
                   sinceSettleStart, invalidMoveActive, invalidSoundStop, alertLoops,
                   flashSquares, panicked, session, engineVars, recommended, hist,
                   callVars>>

\* mainDisplay.OnTapped: the next corner click
CornerTap ==
    /\ ~panicked
    /\ calibMode = "calibSelecting"
    /\ LET corners == Append(calibCorners, CornerTaps[Len(calibCorners) + 1])
       IN  /\ calibCorners' = corners
           /\ IF Len(corners) < 4
              THEN UNCHANGED <<calibMode, manualCorners>>
              ELSE /\ manualCorners' = ReorderPoints(corners)
                   /\ calibMode' = "calibDone"
    /\ ev' = NoEvent
    /\ UNCHANGED <<currentState, gameState, stableDiffCount, pendingOcc, settling,
                   sinceSettleStart, invalidMoveActive, invalidSoundStop, alertLoops,
                   flashSquares, panicked, calibrations, session, engineVars,
                   recommended, hist, callVars>>

\* mainDisplay.OnTapped outside calibSelecting: ignored
CornerTapIgnored ==
    /\ ~panicked
    /\ calibMode # "calibSelecting"
    /\ UNCHANGED <<calibMode, calibCorners, manualCorners, currentState, gameState,
                   stableDiffCount, pendingOcc, settling, sinceSettleStart,
                   invalidMoveActive, invalidSoundStop, alertLoops, flashSquares,
                   panicked, calibrations, session, engineVars, recommended, ev, hist,
                   callVars>>

\* variant: a tap starts a game whatever the calibration mode
StartAcceptedAnyMode(state, mode) == state # "statePlaying"

\* startBtn.OnTapped goes on to a new game: no game in progress, board calibrated
StartAccepted(state, mode) == state # "statePlaying" /\ mode = "calibDone"

\* startBtn.OnTapped while a game is in progress: returns at once
StartGameIgnored ==
    /\ ~panicked
    /\ currentState = "statePlaying"
    /\ UNCHANGED <<calibMode, calibCorners, manualCorners, currentState, gameState,
                   stableDiffCount, pendingOcc, settling, sinceSettleStart,
                   invalidMoveActive, invalidSoundStop, alertLoops, flashSquares,
                   panicked, calibrations, session, engineVars, recommended, ev, hist,
                   callVars>>

\* startBtn.OnTapped on an uncalibrated board: the dialog, answered yes or no
StartGameUncalibrated(yes) ==
    /\ ~panicked
    /\ currentState # "statePlaying"
    /\ calibMode # "calibDone"
    /\ IF yes THEN startCalibration
       ELSE UNCHANGED <<calibMode, calibCorners, manualCorners, calibrations>>
    /\ ev' = NoEvent
    /\ UNCHANGED <<currentState, gameState, stableDiffCount, pendingOcc, settling,
                   sinceSettleStart, invalidMoveActive, invalidSoundStop, alertLoops,
                   flashSquares, panicked, session, engineVars, recommended, hist,
                   callVars>>

\* startBtn.OnTapped on a calibrated board: a new game as selectedColor
StartGame(selectedColor) ==
    /\ ~panicked
    /\ StartAccepted(currentState, calibMode)
    /\ session < MaxGames
    /\ gameState' = NewGame(selectedColor)
    /\ session' = session + 1
    /\ currentState' = "statePlaying"
    /\ stableDiffCount' = 0
    /\ settling' = FALSE
    /\ invalidMoveActive' = FALSE
    /\ recommended' = NoRecommendation
    /\ engineStarts' = engineStarts + 1
    /\ ev' = [NoEvent EXCEPT !.kind = "start", !.status = "Game started"]
    /\ hist' = NoHist
    /\ UNCHANGED <<calibMode, calibCorners, manualCorners, pendingOcc,
                   sinceSettleStart, invalidSoundStop, alertLoops, flashSquares,
                   panicked, calibrations, stockfish, engineProcs, queries, callVars>>

\* depth := difficulty * 2, with difficulty 5 for a selection below 1
Depth(difficulty) == (IF difficulty < 1 THEN DefaultDifficulty ELSE difficulty) * 2

\* a queryStockfish call of the session, dispatched at the position asked
Query(sess, gs, depth) == [session |-> sess, asked |-> FEN(gs), depth |-> depth]

\* the goroutine of startBtn.OnTapped: engine.NewEngine() returned, with or without
\* an engine; with one, and the human not to move, it queries for the first move
EngineStarted(ok, difficulty) ==
    /\ ~panicked
    /\ engineStarts > 0
    /\ (ok /\ ~IsHumanTurn(gameState)) => Cardinality(queries) < MaxQueries
    /\ engineStarts' = engineStarts - 1
    /\ IF ok
       THEN /\ stockfish' = "engine"
            /\ engineProcs' = engineProcs + 1
            /\ queries' = IF IsHumanTurn(gameState) THEN queries
                          ELSE queries \cup {Query(session, gameState, Depth(difficulty))}
            /\ ev' = [NoEvent EXCEPT !.kind = "engineStart",
                         !.dispatched = IF IsHumanTurn(gameState) THEN <<>>
                                        ELSE <<Query(session, gameState, Depth(difficulty))>>]
       ELSE /\ UNCHANGED <<stockfish, engineProcs, queries>>
            /\ ev' = [NoEvent EXCEPT !.kind = "engineStart",
                                     !.status = "Game started (no engine)"]
    /\ UNCHANGED <<calibMode, calibCorners, manualCorners, currentState, gameState,
                   stableDiffCount, pendingOcc, settling, sinceSettleStart,
                   invalidMoveActive, invalidSoundStop, alertLoops, flashSquares,
                   panicked, calibrations, session, recommended, hist, callVars>>

\* variant: the result is surfaced whether BestMove failed or not
SurfacedAlways(ok) == TRUE

\* queryStockfish returns before the highlight and the label when BestMove failed
Surfaced(ok) == ok

\* queryStockfish: eng.BestMove returned for call q, a move or an error; a move is
\* highlighted and shown as recommended
QueryReturned(q, ok) ==
    /\ ~panicked
    /\ q \in queries
    /\ queries' = queries \ {q}
    /\ recommended' = IF Surfaced(ok)
                      THEN [session |-> q.session, asked |-> q.asked, shown |-> TRUE]
                      ELSE recommended
    /\ ev' = [NoEvent EXCEPT !.kind = "engine", !.returned = <<q>>,
                             !.shown = Surfaced(ok),
                             !.status = IF ok THEN "none" ELSE "Stockfish error"]
    /\ UNCHANGED <<calibMode, calibCorners, manualCorners, currentState, gameState,
                   stableDiffCount, pendingOcc, settling, sinceSettleStart,
                   invalidMoveActive, invalidSoundStop, alertLoops, flashSquares,
                   panicked, calibrations, session, stockfish, engineProcs,
                   engineStarts, hist, callVars>>


(***************************************************************************)
(* cmd/app: the frame loop                                                 *)
(***************************************************************************)

\* variant: only the first differing square
diffSquaresFirst(expected, observed) ==
    LET all == SelectSeq([k \in 1..64 |-> <<(k - 1) \div 8, (k - 1) % 8>>],
                         LAMBDA rc : expected[rc[1]][rc[2]] # observed[rc[1]][rc[2]])
    IN  IF all = <<>> THEN all ELSE <<all[1]>>

\* diffSquares: the [row, col] pairs where expected and observed differ, row by row
diffSquares(expected, observed) ==
    SelectSeq([k \in 1..64 |-> <<(k - 1) \div 8, (k - 1) % 8>>],
              LAMBDA rc : expected[rc[1]][rc[2]] # observed[rc[1]][rc[2]])

\* variant: every frame taken as a mismatch
MismatchAlways(occupancy, expected) == TRUE

\* the frame's occupancy differs from the game state's: a potential move
Mismatch(occupancy, expected) == occupancy # expected

\* stableDiffCount after a mismatching frame (occupancy == pendingOcc or not)
CountAfterMismatch(same, count) == IF same THEN count + 1 ELSE 1

\* variant: a changed occupancy does not end the settle
SettlingKept(same, isSettling) == isSettling

\* settling after a mismatching frame: a changed occupancy ends the settle
SettlingAfterMismatch(same, isSettling) == IF same THEN isSettling ELSE FALSE

\* variant: the settle period starts one frame early
StartsSettleEarly(isSettling, count) == ~isSettling /\ count >= stabilityThreshold - 1

\* the settle period starts once the diff is stable enough
StartsSettle(isSettling, count) == ~isSettling /\ count >= stabilityThreshold

\* variant: the settle period is over only strictly after the delay
SettleOverStrict(isSettling, since) == isSettling /\ since > SettleDelay

\* the settle period is over
SettleOver(isSettling, since) == isSettling /\ since >= SettleDelay

\* variant: a matching frame leaves settling as it is
SettlingLeft(isSettling) == isSettling

\* settling after a frame that matches the expected occupancy
SettlingAfterMatch(isSettling) == IF isSettling THEN FALSE ELSE isSettling

\* stableDiffCount once a move was inferred (or found invalid)
CountAfterInfer == 0

\* BoardWidget.FlashInvalid: replaces the flashing squares, unless there are none
FlashInvalid(diffs) == IF Len(diffs) = 0 THEN flashSquares ELSE diffs

\* close(invalidSoundStop): panics on a nil or closed channel
ClosePanics == invalidSoundStop # "open"

\* variant: a channel and an alert loop on every invalid inference
StartsAlertAlways(active) == TRUE

\* if !invalidMoveActive: the first invalid inference makes the channel and starts the loop
StartsAlert(active) == ~active

\* variant: the channel is closed whether the flag is set or not
ClearsInvalidAlways(active) == TRUE

\* if invalidMoveActive: a valid move or a corrected board closes the channel
ClearsInvalid(active) == active

\* the history after a processed frame that carried occ, kept beside the program
HistAfter(occ, expected, dt, countAfter, inferred) ==
    LET differs == occ # expected
        continues == differs /\ hist.run > 0 /\ occ = hist.grid
        run == IF ~differs THEN 0
               ELSE Min((IF continues THEN hist.run ELSE 0) + 1, stabilityThreshold)
        reached == stableDiffCount < stabilityThreshold /\ countAfter >= stabilityThreshold
        iRun == IF ~differs THEN 0
                ELSE Min((IF continues THEN hist.inferRun ELSE 0) + 1, stabilityThreshold)
        fifth == iRun = stabilityThreshold
                 /\ (IF continues THEN hist.inferRun ELSE 0) < stabilityThreshold
        sinceFifth == IF fifth THEN 0 ELSE Tick(hist.sinceFifth, dt)
    IN  [run |-> run,
         grid |-> IF differs THEN occ ELSE hist.grid,
         sinceThreshold |-> IF reached THEN 0 ELSE Tick(hist.sinceThreshold, dt),
         inferRun |-> IF inferred THEN 0 ELSE iRun,
         sinceFifth |-> sinceFifth,
         due |-> iRun = stabilityThreshold /\ sinceFifth >= SettleDelay,
         countSeen |-> countAfter,
         cycles |-> IF ~differs THEN 0
                    ELSE Min((IF continues THEN hist.cycles ELSE 0)
                             + (IF inferred THEN 1 ELSE 0), MaxCycles),
         calm |-> IF differs THEN 0 ELSE Min(hist.calm + 1, MaxCalm)]

\* the frame loop's game logic on a frame whose scan returned occupancy, dt after the
\* last frame; expected is gs.ExpectedOccupancy()
GameLogic(occupancy, expected, dt, difficulties) ==
    LET gs == gameState
        since0 == Tick(sinceSettleStart, dt)
        same == occupancy = pendingOcc
        count1 == CountAfterMismatch(same, stableDiffCount)
        settling1 == SettlingAfterMismatch(same, settling)
        starts == StartsSettle(settling1, count1)
        settling2 == settling1 \/ starts
        since2 == IF starts THEN 0 ELSE since0
        fires == SettleOver(settling2, since2)
        frame == [NoEvent EXCEPT !.kind = "frame", !.logic = TRUE, !.warp = Warped,
                                 !.occ = occupancy, !.before = gs,
                                 !.aborted = (Mismatch(occupancy, expected)
                                              /\ ~same /\ settling),
                                 !.started = (Mismatch(occupancy, expected) /\ starts)]
    IN  IF Mismatch(occupancy, expected)
        THEN /\ pendingOcc' = occupancy
             /\ sinceSettleStart' = since2
             /\ settling' = IF fires THEN FALSE ELSE settling2
             /\ stableDiffCount' = IF fires THEN CountAfterInfer ELSE count1
             /\ hist' = HistAfter(occupancy, expected, dt, count1, fires)
             /\ IF ~fires
                THEN /\ ev' = frame
                     /\ UNCHANGED <<gameState, currentState, invalidMoveActive,
                                    invalidSoundStop, alertLoops, flashSquares, panicked,
                                    queries, recommended>>
                ELSE \E res \in {InferMove(gs, occupancy)} :
                     IF res.err
                THEN \* invalid move: flash the differing squares and play the alert
                     /\ invalidMoveActive' = TRUE
                     /\ invalidSoundStop' = IF StartsAlert(invalidMoveActive) THEN "open"
                                           ELSE invalidSoundStop
                     /\ alertLoops' = IF StartsAlert(invalidMoveActive) THEN alertLoops + 1
                                     ELSE alertLoops
                     /\ flashSquares' = FlashInvalid(diffSquares(expected, occupancy))
                     /\ ev' = [frame EXCEPT !.infer = "nomatch",
                                 !.status = IF invalidMoveActive THEN "none" ELSE "Invalid move"]
                     /\ UNCHANGED <<gameState, currentState, panicked, queries,
                                    recommended>>
                ELSE IF ClearsInvalid(invalidMoveActive) /\ ClosePanics
                THEN \* close of a nil or closed channel
                     /\ panicked' = TRUE
                     /\ invalidMoveActive' = FALSE
                     /\ ev' = [frame EXCEPT !.infer = "match", !.move = res.move]
                     /\ UNCHANGED <<gameState, currentState, invalidSoundStop,
                                    alertLoops, flashSquares, queries, recommended>>
                ELSE \* valid move: clear any invalid state, apply the move
                     \E accepted \in {MoveAccepted(gs, res.move)} :
                     \E gs1 \in {ApplyMove(gs, res.move)} :
                     \E over \in {IsGameOver(gs1)} :
                     \E asks \in {accepted /\ ~over /\ ~IsHumanTurn(gs1) /\ stockfish # "nil"} :
                     \E difficulty \in (IF asks THEN difficulties ELSE {0}) :
                     \E query \in {Query(session, gs1, Depth(difficulty))} :
                     /\ asks => Cardinality(queries) < MaxQueries
                     /\ invalidMoveActive' = FALSE
                     /\ invalidSoundStop' = IF ClearsInvalid(invalidMoveActive) THEN "closed"
                                           ELSE invalidSoundStop
                     /\ alertLoops' = IF ClearsInvalid(invalidMoveActive) THEN alertLoops - 1
                                     ELSE alertLoops
                     /\ flashSquares' = IF ClearsInvalid(invalidMoveActive) THEN <<>>
                                       ELSE flashSquares
                     /\ gameState' = gs1
                     /\ currentState' = IF accepted /\ over THEN "stateGameOver" ELSE currentState
                     /\ recommended' = IF accepted THEN NoRecommendation ELSE recommended
                     /\ queries' = IF asks THEN queries \cup {query} ELSE queries
                     /\ ev' = [frame EXCEPT !.infer = "match", !.move = res.move,
                                 !.applied = IF accepted THEN <<res.move>> ELSE <<>>,
                                 !.dispatched = IF asks THEN <<query>> ELSE <<>>,
                                 !.difficulty = difficulty,
                                 !.status = IF accepted /\ over THEN "Game over" ELSE "none"]
                     /\ UNCHANGED panicked
        ELSE \* occupancy matches expected: reset the stability counter
             /\ stableDiffCount' = 0
             /\ settling' = SettlingAfterMatch(settling)
             /\ sinceSettleStart' = since0
             /\ hist' = HistAfter(occupancy, expected, dt, stableDiffCount, FALSE)
             /\ IF ClearsInvalid(invalidMoveActive)
                THEN IF ClosePanics
                     THEN /\ panicked' = TRUE
                          /\ invalidMoveActive' = FALSE
                          /\ ev' = frame
                          /\ UNCHANGED <<invalidSoundStop, alertLoops, flashSquares>>
                     ELSE /\ invalidMoveActive' = FALSE
                          /\ invalidSoundStop' = "closed"
                          /\ alertLoops' = alertLoops - 1
                          /\ flashSquares' = <<>>
                          /\ ev' = [frame EXCEPT !.status = "Board corrected"]
                          /\ UNCHANGED panicked
                ELSE /\ ev' = frame
                     /\ UNCHANGED <<invalidMoveActive, invalidSoundStop, alertLoops,
                                    flashSquares, panicked>>
             /\ UNCHANGED <<gameState, currentState, pendingOcc, queries, recommended>>

\* variant: the game logic runs whatever the calibration mode
LogicRunsAnyMode ==
    currentState = "statePlaying" /\ ~gameState.nil

\* the game logic runs on this frame
LogicRuns ==
    calibMode = "calibDone" /\ currentState = "statePlaying" /\ ~gameState.nil

\* variant: queryStockfish called in the loop, which waits for it to return
AwaitsQueryInFlight(inFlight) == inFlight # {}

\* go queryStockfish(...): the loop goes on to the next frame with the calls in flight
AwaitsQuery(inFlight) == FALSE

\* the loop reads its next frame: the program runs and the loop waits for nothing
FrameReady == ~panicked /\ ~AwaitsQuery(queries)

\* one iteration of the background loop, dt after the last one, on a grid of
\* scans and with a difficulty of the difficulty selector
FrameOn(scans, dts, difficulties) ==
    /\ FrameReady
    /\ IF LogicRuns
       THEN LET expected == ExpectedOccupancy(gameState)
            IN  \E occupancy \in scans : \E dt \in dts :
                   /\ (Mismatch(occupancy, expected) /\ occupancy = pendingOcc)
                          => stableDiffCount < MaxCount
                   /\ GameLogic(occupancy, expected, dt, difficulties)
       ELSE \E dt \in dts :
            /\ sinceSettleStart' = Tick(sinceSettleStart, dt)
            /\ hist' = [hist EXCEPT !.sinceThreshold = Tick(hist.sinceThreshold, dt),
                                    !.sinceFifth = Tick(hist.sinceFifth, dt)]
            /\ ev' = [NoEvent EXCEPT !.kind = "frame", !.warp = Warped]
            /\ UNCHANGED <<gameState, currentState, stableDiffCount, pendingOcc, settling,
                           invalidMoveActive, invalidSoundStop, alertLoops, flashSquares,
                           panicked, queries, recommended>>
    /\ UNCHANGED <<calibMode, calibCorners, manualCorners, calibrations, session,
                   stockfish, engineProcs, engineStarts, callVars>>

Frame ==
    FrameOn(Observations(ExpectedOccupancy(gameState)), DtValues, {DefaultDifficulty})

Next ==
    \/ CalibrateTap
    \/ CornerTap
    \/ CornerTapIgnored
    \/ StartGameIgnored
    \/ \E yes \in BOOLEAN : StartGameUncalibrated(yes)
    \/ \E c \in HumanColors : StartGame(c)
    \/ Frame

Spec == Init /\ [][Next]_vars

(***************************************************************************)
(* cmd/app: whole games with the engine, the board following the shortest  *)
(* game to a checkmate (f2f3 e7e5 g2g4 d8h4)                               *)
(***************************************************************************)

GameColors == {"White", "Black"}

ScriptMoves == <<{F2, F3}, {E7, E5}, {G2, G4}, {D8, H4}>>

ScriptFrom == <<F2, E7, G2, D8>>

Occupied(grid, sq) == grid[RowColFromSquare(sq)[1]][RowColFromSquare(sq)[2]]

\* the grids ScanBoardDebug returns while the game is played: the expected grid, or
\* the grid after the next move of the game
ScriptScan(expected) ==
    LET left == {i \in 1..Len(ScriptMoves) : Occupied(expected, ScriptFrom[i])}
    IN  {expected} \cup
        {Toggle(expected, ScriptMoves[i]) : i \in {j \in left : \A k \in left : j <= k}}

GameFrame == FrameOn(ScriptScan(ExpectedOccupancy(gameState)), {1}, Difficulties)

A2 == NewSquare(0, 1)

\* the same scans, and the grid with the a2 pawn lifted off the board, which no legal move
\* of the game explains
AlertScan(expected) ==
    ScriptScan(expected) \cup (IF Occupied(expected, A2) THEN {Toggle(expected, {A2})} ELSE {})

AlertFrame == FrameOn(AlertScan(ExpectedOccupancy(gameState)), {1}, {DefaultDifficulty})

\* games with invalid boards: taps, frames and the engine's events
AlertNext ==
    \/ \E yes \in BOOLEAN : StartGameUncalibrated(yes)
    \/ CornerTap
    \/ \E c \in HumanColors : StartGame(c)
    \/ \E ok \in BOOLEAN : EngineStarted(ok, DefaultDifficulty)
    \/ \E q \in queries : \E ok \in BOOLEAN : QueryReturned(q, ok)
    \/ AlertFrame

SpecAlert == Init /\ [][AlertNext]_vars

GameNext ==
    \/ \E yes \in BOOLEAN : StartGameUncalibrated(yes)
    \/ CornerTap
    \/ StartGameIgnored
    \/ \E c \in GameColors : StartGame(c)
    \/ \E ok \in BOOLEAN : \E d \in Difficulties : EngineStarted(ok, d)
    \/ \E q \in queries : \E ok \in BOOLEAN : QueryReturned(q, ok)
    \/ GameFrame

SpecGame == Init /\ [][GameNext]_vars

(***************************************************************************)
(* pkg/chess: one InferMove call, then ApplyMove of the move it returned   *)
(***************************************************************************)

\* the positions the calls are made on
TestPositions ==
    {StartPos, CapturePos, CastlePos, AmbiguousPos, EnPassantPos, PromotionPos,
     BlackToMovePos}

\* a GameState holding pos
GameAt(pos) == [nil |-> FALSE, game |-> pos, HumanColor |-> "White"]

\* the grids of the positions one legal move away
MoveGrids(pos) ==
    {occupancyFromBoard(Update(pos, m).board) : m \in Range(ValidMoves(pos))}

\* the squares the tests change by hand: e4 vacated (exd5); e1, h1 vacated and
\* g1, f1 occupied (O-O)
HandGrids(expected) == {Toggle(expected, {E4}), Toggle(expected, {E1, F1, G1, H1})}

\* the observed grids: every grid a legal move leads to, the grids of the camera
\* and the grids of the tests
TestGrids(pos) ==
    LET expected == occupancyFromBoard(pos.board)
    IN  MoveGrids(pos) \cup Observations(expected) \cup HandGrids(expected)

InferInit ==
    /\ AppInit
    /\ inferPos \in TestPositions
    /\ inferObs \in TestGrids(inferPos)
    /\ inferRes = [move |-> NoMove, err |-> FALSE]
    /\ inferPc = "ready"
    /\ inferHint = NoHint
    /\ LibIdle

\* move, err := gs.InferMove(observed)
InferCall ==
    /\ inferPc = "ready"
    /\ inferRes' = InferMove(GameAt(inferPos), inferObs)
    /\ inferPc' = "inferred"
    /\ UNCHANGED <<inferPos, inferObs, inferHint, appVars, libVars>>

\* gs.ApplyMove(move) on the move returned
ApplyCall ==
    /\ inferPc = "inferred"
    /\ ~inferRes.err
    /\ inferPos' = ApplyMove(GameAt(inferPos), inferRes.move).game
    /\ inferPc' = "applied"
    /\ UNCHANGED <<inferObs, inferRes, inferHint, appVars, libVars>>

\* move, err := gs.InferMoveWithColor(observed, brightness)
InferWithColorCall ==
    /\ inferPc = "ready"
    /\ \E brightness \in Hints :
           /\ inferHint' = brightness
           /\ inferRes' = InferMoveWithColor(GameAt(inferPos), inferObs, brightness)
    /\ inferPc' = "hinted"
    /\ UNCHANGED <<inferPos, inferObs, appVars, libVars>>

InferNext == InferCall \/ ApplyCall \/ InferWithColorCall

SpecInfer == InferInit /\ [][InferNext]_vars

(***************************************************************************)
(* Properties of the frame loop                                            *)
(***************************************************************************)

\* the step is an iteration of the frame loop on which the game logic ran
LogicFrameStep == ev'.kind = "frame" /\ ev'.logic

\* the legal moves of pos after which the board's occupancy is grid
LegalMatches(pos, grid) ==
    {m \in Range(ValidMoves(pos)) : occupancyFromBoard(Update(pos, m).board) = grid}

\* the [row, col] pairs at which two grids differ
DiffSet(expected, observed) ==
    {rc \in Rows \X Rows : expected[rc[1]][rc[2]] # observed[rc[1]][rc[2]]}

\* C1: InferMove is invoked on a frame only if that frame and the four processed
\* frames before it all carried the same grid, different from the expected one,
\* and the settle delay has passed since the frame on which stableDiffCount
\* reached the stability threshold.
C1_InferOnlyWhenStableAndSettled ==
    ev.infer # "none" =>
        /\ ev.occ # ExpectedOccupancy(ev.before)
        /\ hist.grid = ev.occ
        /\ hist.run >= stabilityThreshold
        /\ hist.sinceThreshold >= SettleDelay

C1_Inferred ==
    /\ ev.infer # "none"
    /\ hist.run >= stabilityThreshold
    /\ hist.sinceThreshold >= SettleDelay

C2_Step ==
    LogicFrameStep =>
        /\ (settling /\ ev'.occ # ExpectedOccupancy(gameState) /\ ev'.occ # pendingOcc)
              => /\ ~settling'
                 /\ pendingOcc' = ev'.occ
                 /\ stableDiffCount' = 1
                 /\ sinceSettleStart' >= sinceSettleStart
        /\ (sinceSettleStart' < sinceSettleStart)
              => /\ settling'
                 /\ stableDiffCount < stabilityThreshold
                 /\ stableDiffCount' = stabilityThreshold

\* C2: while settling, a frame whose grid differs from the expected and from the
\* pending grid ends the settle, becomes the pending grid and sets stableDiffCount
\* to 1; the settle timer is restarted only on a frame on which stableDiffCount
\* reaches the threshold again.
C2_ChangedGridAbortsSettle == [][C2_Step]_vars

C2_Aborted ==
    /\ ev.aborted
    /\ ~settling
    /\ stableDiffCount = 1
    /\ pendingOcc = ev.occ

C3_Post ==
    (ev.logic /\ hist.due /\ Cardinality(LegalMatches(ev.before.game, ev.occ)) = 1) =>
        LET m == CHOOSE x \in LegalMatches(ev.before.game, ev.occ) : TRUE
        IN  /\ ev.applied = <<m>>
            /\ FEN(gameState) = Update(ev.before.game, m)
            /\ ExpectedOccupancy(gameState) = ev.occ

C3_Stay ==
    (LogicFrameStep /\ ev.applied # <<>> /\ ev'.occ = ev.occ) =>
        /\ ev'.infer = "none"
        /\ ev'.applied = <<>>
        /\ gameState' = gameState

\* C3: when the grid has stayed at the occupancy of exactly one legal move m for
\* the threshold of frames and through the settle delay, ApplyMove is called once,
\* with m, and the position becomes the one after m; the expected grid then
\* equals the observed one, and while the grid stays no further move is applied.
C3_UniqueMoveAppliedOnce == []C3_Post /\ [][C3_Stay]_vars

C3_Applied ==
    /\ ev.logic
    /\ hist.due
    /\ ev.applied = <<Mv(E2, E4, "none")>>
    /\ ExpectedOccupancy(gameState) = ev.occ

C4_Post ==
    (ev.infer # "none" /\ LegalMatches(ev.before.game, ev.occ) = {}) =>
        /\ ev.infer = "nomatch"
        /\ invalidMoveActive
        /\ flashSquares # <<>>
        /\ Len(flashSquares) = Cardinality(Range(flashSquares))
        /\ Range(flashSquares) = DiffSet(ExpectedOccupancy(ev.before), ev.occ)
        /\ gameState = ev.before

C4_Clear ==
    (LogicFrameStep /\ invalidMoveActive /\ ev'.occ = ExpectedOccupancy(gameState))
        => ~invalidMoveActive'

\* C4: an inference on a grid that no legal move matches leaves the invalid-move
\* flag active, the flagged squares exactly the (non-empty) set of squares where
\* the expected and the observed grid differ, and the position as it was; the
\* flag is cleared on the first later frame whose grid equals the expected one.
C4_NoMatchFlagsDiffs == []C4_Post /\ [][C4_Clear]_vars

C4_Flagged ==
    /\ ev.infer = "nomatch"
    /\ invalidMoveActive
    /\ Len(flashSquares) = 2
    /\ gameState = ev.before

\* C5: an inference that finds no match never leaves statePlaying, and while the
\* grid stays at the same non-matching value InferMove is invoked again on every
\* settle cycle: the threshold of further identical frames, then the settle delay.
C5_NoMatchRetriedEveryCycle ==
    /\ ev.infer = "nomatch" => currentState = "statePlaying"
    /\ (ev.logic /\ hist.due /\ LegalMatches(ev.before.game, ev.occ) = {})
          => ev.infer = "nomatch"

C5_Retried ==
    /\ ev.infer = "nomatch"
    /\ hist.cycles >= 2
    /\ currentState = "statePlaying"

C6_Step ==
    (LogicFrameStep /\ ev'.occ = ExpectedOccupancy(gameState)) =>
        /\ stableDiffCount' = 0
        /\ ~settling'
        /\ ev'.infer = "none"
        /\ ~invalidMoveActive'
        /\ invalidMoveActive
              => /\ invalidSoundStop' = "closed"
                 /\ alertLoops' = alertLoops - 1
                 /\ flashSquares' = <<>>
                 /\ ev'.status = "Board corrected"

\* C6: every frame processed while playing whose grid equals the expected one
\* sets stableDiffCount to 0 and settling to false without invoking InferMove,
\* and clears an active invalid-move flag: the alert is stopped, the red
\* highlights are cleared and "Board corrected" is reported.
C6_MatchingFrameResets == [][C6_Step]_vars

C6_Corrected ==
    /\ ev.status = "Board corrected"
    /\ stableDiffCount = 0
    /\ ~settling
    /\ ~invalidMoveActive
    /\ invalidSoundStop = "closed"

C7_Step ==
    (LogicFrameStep /\ ev'.occ = ExpectedOccupancy(gameState)) =>
        /\ ev'.infer = "none"
        /\ ev'.applied = <<>>
        /\ FEN(gameState') = FEN(gameState)
        /\ currentState' = currentState
        /\ ~invalidMoveActive
              => /\ ~invalidMoveActive'
                 /\ ev'.status = "none"
                 /\ UNCHANGED <<invalidSoundStop, alertLoops, flashSquares>>

\* C7: over any number of consecutive frames whose grid equals the expected one,
\* neither InferMove nor ApplyMove is invoked and the position, the application
\* state and an inactive invalid-move flag stay as they are.
C7_MatchingFramesChangeNothing == [][C7_Step]_vars

C7_Calm ==
    /\ ev.logic
    /\ hist.calm >= 2
    /\ ev.infer = "none"
    /\ ev.status = "none"
    /\ ~invalidMoveActive

(***************************************************************************)
(* Properties of InferMove                                                 *)
(***************************************************************************)

\* C8: when InferMove returns a move, applying that move gives a position whose
\* ExpectedOccupancy is the observed grid.
C8_AppliedMoveGivesObserved ==
    inferPc = "applied" => ExpectedOccupancy(GameAt(inferPos)) = inferObs

C8_CaptureApplied ==
    /\ inferPc = "applied"
    /\ inferRes.move = Mv(E4, D5, "none")
    /\ ExpectedOccupancy(GameAt(inferPos)) = inferObs

\* C9: when exactly one legal move matches the observed grid, InferMove returns
\* that move and no error: e2e4 from the start, the capture exd5, castling O-O.
C9_SingleMatchReturned ==
    inferPc = "inferred" =>
        /\ Cardinality(LegalMatches(inferPos, inferObs)) = 1
              => /\ ~inferRes.err
                 /\ inferRes.move \in LegalMatches(inferPos, inferObs)
        /\ (inferPos = StartPos
            /\ inferObs = Toggle(occupancyFromBoard(StartPos.board), {E2, E4}))
              => inferRes = [move |-> Mv(E2, E4, "none"), err |-> FALSE]
        /\ (inferPos = CapturePos
            /\ inferObs = Toggle(occupancyFromBoard(CapturePos.board), {E4}))
              => inferRes = [move |-> Mv(E4, D5, "none"), err |-> FALSE]
        /\ (inferPos = CastlePos
            /\ inferObs = Toggle(occupancyFromBoard(CastlePos.board), {E1, F1, G1, H1}))
              => inferRes = [move |-> Mv(E1, G1, "none"), err |-> FALSE]

C9_CastleInferred ==
    /\ inferPc = "inferred"
    /\ inferPos = CastlePos
    /\ inferObs = Toggle(occupancyFromBoard(CastlePos.board), {E1, F1, G1, H1})
    /\ inferRes = [move |-> Mv(E1, G1, "none"), err |-> FALSE]

\* C10: InferMove returns the no-match error exactly when no legal move matches
\* the observed grid, and a move it returns is always one of the legal moves.
C10_NoMatchIffNoLegalMatch ==
    inferPc = "inferred" =>
        /\ inferRes.err <=> LegalMatches(inferPos, inferObs) = {}
        /\ ~inferRes.err => inferRes.move \in Range(ValidMoves(inferPos))

C10_NoMatchReturned ==
    /\ inferPc = "inferred"
    /\ inferRes.err
    /\ inferRes.move = NoMove
    /\ LegalMatches(inferPos, inferObs) = {}

\* the first move of the enumeration moves that is in the set S
FirstOf(moves, S) ==
    moves[CHOOSE i \in 1..Len(moves) :
              /\ moves[i] \in S
              /\ \A j \in 1..(i - 1) : moves[j] \notin S]

\* C11: when more than one legal move matches the observed grid, InferMove
\* returns the first matching queen promotion of the enumeration if a matching
\* move promotes to a queen, and the first matching move of the enumeration
\* otherwise.
C11_TieBreakQueenThenFirst ==
    inferPc = "inferred" =>
        LET ms == LegalMatches(inferPos, inferObs)
            queens == {m \in ms : m.promo = "Q"}
        IN  Cardinality(ms) > 1 =>
                /\ ~inferRes.err
                /\ queens # {} => inferRes.move = FirstOf(ValidMoves(inferPos), queens)
                /\ queens = {} => inferRes.move = FirstOf(ValidMoves(inferPos), ms)

C11_QueenPreferred ==
    /\ inferPc = "inferred"
    /\ inferPos = PromotionPos
    /\ Cardinality(LegalMatches(inferPos, inferObs)) = 4
    /\ inferRes.move = Mv(A7, B8, "Q")

C13_StaleResultDiscarded ==
    (ev.kind = "engine" /\ ev.shown)
        => /\ ev.returned[1].session = session
           /\ ev.returned[1].asked = FEN(gameState)

\* a move is applied on this step and leaves a side with no legal move
TerminalMoveApplied ==
    /\ ev'.kind = "frame"
    /\ ev'.applied # <<>>
    /\ Outcome(gameState'.game) # "NoOutcome"

C14_Step ==
    /\ TerminalMoveApplied => (currentState' = "stateGameOver" /\ ev'.dispatched = <<>>)
    /\ (currentState = "stateGameOver" /\ ev'.kind # "start")
           => /\ currentState' = "stateGameOver"
              /\ gameState' = gameState
              /\ ev'.infer = "none" /\ ev'.applied = <<>>

MoveApplied ==
    /\ ev'.kind = "frame"
    /\ ev'.applied # <<>>
    /\ Outcome(gameState'.game) = "NoOutcome"

HumanToMove(gs) == gs.game.turn = (IF gs.HumanColor = "White" THEN "w" ELSE "b")

C15_Step ==
    MoveApplied =>
        IF ~HumanToMove(gameState') /\ stockfish # "nil"
        THEN /\ Len(ev'.dispatched) = 1
             /\ ev'.dispatched[1].session = session
             /\ ev'.dispatched[1].asked = FEN(gameState')
             /\ ev'.dispatched[1].depth = 2 * ev'.difficulty
             /\ ev'.difficulty \in Difficulties
             /\ ev'.dispatched[1] \in queries'
             /\ Cardinality(queries') = Cardinality(queries) + 1
        ELSE /\ ev'.dispatched = <<>>
             /\ Cardinality(queries') = Cardinality(queries)

\* C15: an applied move that leaves a non-terminal position with the non-human side
\* to move, the engine having been started, dispatches exactly one query for the new
\* position at twice the selected difficulty; with the human to move, or without an
\* engine, it dispatches none
C15_OneQueryPerEngineTurn == [][C15_Step]_vars

\* a query at depth 20 was dispatched by the frame that applied a move
C15_Dispatched ==
    /\ ev.applied # <<>>
    /\ ev.dispatched # <<>>
    /\ ev.dispatched[1].depth = 20
    /\ ev.dispatched[1] \in queries

(***************************************************************************)
(* cmd/app: who writes the game                                            *)
(***************************************************************************)

\* the chess position and game session, and the debounce variables
gameVars == <<gameState, currentState, stableDiffCount, settling, invalidMoveActive>>

C16_Step == gameVars' # gameVars => ev'.kind = "frame"

\* C16: only the frame loop writes the chess position, the game session and the
\* debounce variables; no control-surface callback writes any of them
C16_FrameLoopSoleWriter == [][C16_Step]_vars

C17_Step ==
    /\ (session' = session /\ gameState' # gameState)
           => /\ ev'.kind = "frame"
              /\ ev'.infer = "match"
              /\ ev'.applied = <<ev'.move>>
              /\ ev'.move \in LegalMatches(gameState.game, ev'.occ)
              /\ gameState' = [gameState EXCEPT !.game = Update(gameState.game, ev'.move)]
    /\ ev'.kind \in {"engineStart", "engine"} => gameState' = gameState
    /\ (ev'.kind = "frame" /\ ev'.applied = <<>>) => gameState' = gameState

\* C17: within a session the position changes only on a frame, by the one move that
\* InferMove returned for the grid of that frame; a frame that applies no move and
\* the steps of the engine leave the position unchanged
C17_PositionChangesByOneInferredMove == [][C17_Step]_vars

\* a move of the second session has just been applied
C17_Moved ==
    /\ session = 2
    /\ ev.applied = <<ev.move>>
    /\ gameState.game = Update(ev.before.game, ev.move)

\* the variables the frame loop's game logic reads and writes
loopVars == <<gameState, currentState, stableDiffCount, pendingOcc, settling,
              sinceSettleStart, invalidMoveActive, invalidSoundStop>>

\* NewEngine returned an error, or BestMove did, on this step
EngineFailed ==
    \/ ev'.kind = "engineStart" /\ ev'.status = "Game started (no engine)"
    \/ ev'.kind = "engine" /\ ev'.status = "Stockfish error"

C19_Step ==
    EngineFailed => /\ ~ev'.shown
                    /\ recommended' = recommended
                    /\ ev'.dispatched = <<>>
                    /\ queries' \subseteq queries
                    /\ stockfish' = stockfish
                    /\ loopVars' = loopVars

C19_NoEngineNoRecommendation ==
    stockfish = "nil" => (queries = {} /\ ~recommended.shown)

MaxCoord == 2

Points == (0..MaxCoord) \X (0..MaxCoord)

\* lists of the lengths ReorderPoints hands back untouched
OtherLens == {0, 1, 2, 3, 5}

ShortCoords == {0, 1}

OtherLists == UNION {[1..n -> ShortCoords \X ShortCoords] : n \in OtherLens}

ReorderInit ==
    /\ AppInit
    /\ InferIdle
    /\ SmoothIdle
    /\ PureIdle
    /\ reorderPts \in [1..4 -> Points] \cup OtherLists
    /\ reorderOut = <<>>
    /\ reorderPc = "ready"

\* q := ReorderPoints(pts)
ReorderCall ==
    /\ reorderPc = "ready"
    /\ reorderOut' = <<ReorderPoints(reorderPts)>>
    /\ reorderPc' = "once"
    /\ UNCHANGED <<reorderPts, appVars, inferVars, smoothVars, pureVars>>

\* r := ReorderPoints(q)
ReorderAgain ==
    /\ reorderPc = "once"
    /\ reorderOut' = Append(reorderOut, ReorderPoints(reorderOut[1]))
    /\ reorderPc' = "twice"
    /\ UNCHANGED <<reorderPts, appVars, inferVars, smoothVars, pureVars>>

ReorderNext == ReorderCall \/ ReorderAgain

SpecReorder == ReorderInit /\ [][ReorderNext]_vars

\* C20: ReorderPoints(ReorderPoints(P)) = ReorderPoints(P) for every four points P
C20_ReorderIdempotent ==
    reorderPc = "twice" => reorderOut[2] = reorderOut[1]

SumOf(p) == PX(p) + PY(p)

DiffOf(p) == PY(p) - PX(p)

PointsOf(pts) == {pts[i] : i \in 1..Len(pts)}

\* C21: for four points P, ReorderPoints(P) = [TL, TR, BR, BL] where TL is a point of P with
\* the minimum x+y, BR one with the maximum x+y, TR one with the minimum y-x and BL one with
\* the maximum y-x; a list whose length is not 4 is returned unchanged
C21_ReorderExtrema ==
    reorderPc # "ready" =>
        LET P == PointsOf(reorderPts)
            out == reorderOut[1]
        IN  IF Len(reorderPts) # 4 THEN out = reorderPts
            ELSE /\ Len(out) = 4
                 /\ \A i \in 1..4 : out[i] \in P
                 /\ \A p \in P : /\ SumOf(out[1]) <= SumOf(p)
                                /\ DiffOf(out[2]) <= DiffOf(p)
                                /\ SumOf(out[3]) >= SumOf(p)
                                /\ DiffOf(out[4]) >= DiffOf(p)

\* a square given from its bottom-right corner comes back as tl, tr, br, bl
C21_SquareReordered ==
    /\ reorderPc = "once"
    /\ reorderPts = <<<<2, 2>>, <<0, 0>>, <<0, 2>>, <<2, 0>>>>
    /\ reorderOut[1] = <<<<0, 0>>, <<2, 0>>, <<2, 2>>, <<0, 2>>>>

(***************************************************************************)
(* pkg/vision: a BoardSmoother fed candidates frame after frame            *)
(***************************************************************************)

\* the most consecutive candidates without 4 points
MaxMisses == 32

\* the most 4-point candidates handed to one smoother
MaxDetections == 3

\* smoothing factors: 0, 0.3, 0.5, 1, and 1.5 which is outside [0, 1]
Alphas == {0, 3, 5, 10, 15}

\* candidates as DetectBoard may hand them over, in any order of the vertices
Candidates ==
    { <<<<100, 100>>, <<500, 100>>, <<500, 500>>, <<100, 500>>>>,
      <<<<497, 490>>, <<100, 500>>, <<130, 140>>, <<500, 100>>>>,
      <<<<131, 140>>, <<510, 100>>, <<500, 500>>, <<100, 500>>>>,
      <<<<100, 500>>, <<590, 620>>, <<500, 100>>, <<160, 180>>>>,
      <<<<1000, 1000>>, <<1400, 1000>>, <<1400, 1400>>, <<1000, 1400>>>> }

\* candidates without 4 points: nothing found, or a list of another length
NonCandidates == { <<>>, <<<<100, 100>>, <<500, 100>>, <<500, 500>>>> }

SmoothInit ==
    /\ AppInit
    /\ InferIdle
    /\ ReorderIdle
    /\ PureIdle
    /\ smoother \in {NewBoardSmoother(alpha) : alpha \in Alphas}
    /\ smoothEv = NoSmoothEv

\* corners = s.Smooth(newCorners)
SmoothCall(kind, newCorners) ==
    /\ smoother' = Smooth(smoother, newCorners)
    /\ smoothEv' = [kind |-> kind, before |-> smoother, cand |-> newCorners,
                    sortedNew |-> ReorderPoints(newCorners), out |-> smoother'.LastCorners,
                    detections |-> smoothEv.detections + (IF kind = "hit" THEN 1 ELSE 0),
                    cleared |-> IF smoother.LastCorners # <<>> /\ smoother'.LastCorners = <<>>
                                THEN smoother.LastCorners ELSE smoothEv.cleared]
    /\ UNCHANGED <<appVars, inferVars, reorderVars, pureVars>>

SmoothDetected ==
    /\ smoothEv.detections < MaxDetections
    /\ \E c \in Candidates : SmoothCall("hit", c)

SmoothMissed ==
    /\ smoother.FramesSinceDetected < MaxMisses
    /\ \E c \in NonCandidates : SmoothCall("miss", c)

SmoothNext == SmoothDetected \/ SmoothMissed

SpecSmooth == SmoothInit /\ [][SmoothNext]_vars

\* the last call was Smooth on a 4-point candidate while the smoother held 4 corners
Smoothed ==
    /\ smoothEv.kind = "hit"
    /\ Len(smoothEv.before.LastCorners) = 4

\* corner i of the candidate, reordered, is more than maxJump from corner i held before
Jumped(i, maxJump) ==
    DistanceExceeds(smoothEv.before.LastCorners[i], smoothEv.sortedNew[i], maxJump)

Between(v, a, b) == (a <= v /\ v <= b) \/ (b <= v /\ v <= a)

\* C22: when the smoother holds 4 corners and 0 <= alpha <= 1, if every corner of the reordered
\* candidate is within 50 px of the corresponding previous output corner, every corner Smooth
\* outputs is within 50 px of the previous output corner, between it and the candidate
C22_SmallMovesStaySmall ==
    (/\ Smoothed
     /\ smoothEv.before.Alpha \in 0..AlphaDen
     /\ \A i \in 1..4 : ~Jumped(i, BaseJump))
    => \A i \in 1..4 :
           LET last == smoothEv.before.LastCorners[i]
               new == smoothEv.sortedNew[i]
               out == smoothEv.out[i]
           IN  /\ ~DistanceExceeds(last, out, BaseJump)
               /\ Between(PX(out), PX(last), PX(new))
               /\ Between(PY(out), PY(last), PY(new))

\* with alpha = 0.3 a candidate within the threshold moved a corner to a point strictly between
C22_MovedPartWay ==
    /\ Smoothed
    /\ smoothEv.before.Alpha = 3
    /\ \A i \in 1..4 : ~Jumped(i, BaseJump)
    /\ \E i \in 1..4 : /\ smoothEv.out[i] # smoothEv.before.LastCorners[i]
                        /\ smoothEv.out[i] # smoothEv.sortedNew[i]
                        /\ PX(smoothEv.sortedNew[i]) < PX(smoothEv.before.LastCorners[i])

C24_RelaxedAfterMisses ==
    (Smoothed /\ smoothEv.before.FramesSinceDetected \in (RelaxAfter + 1)..ResetAfter)
    => \A i \in 1..4 :
           (Jumped(i, BaseJump) /\ ~Jumped(i, RelaxedJump))
           => LET last == smoothEv.before.LastCorners[i]
                  new == smoothEv.sortedNew[i]
              IN  smoothEv.out[i] = <<Lerp(PX(last), PX(new), smoothEv.before.Alpha),
                                      Lerp(PY(last), PY(new), smoothEv.before.Alpha)>>

\* C25: a candidate without 4 points gets the last quadrilateral back, unchanged, on the first
\* 30 consecutive misses; from the 31st on it gets none and the memory is cleared, and the next
\* 4-point candidate is then accepted as it is, reordered
C25_MemoryClearedAfter30 ==
    /\ (smoothEv.kind = "miss" /\ smoothEv.before.FramesSinceDetected + 1 <= ResetAfter)
       => (smoothEv.out = smoothEv.before.LastCorners /\ smoother.LastCorners = smoothEv.out)
    /\ (smoothEv.kind = "miss" /\ smoothEv.before.FramesSinceDetected + 1 > ResetAfter)
       => (smoothEv.out = <<>> /\ smoother.LastCorners = <<>>)
    /\ (smoothEv.kind = "hit" /\ smoothEv.before.FramesSinceDetected > ResetAfter)
       => (smoothEv.out = smoothEv.sortedNew /\ smoother.LastCorners = smoothEv.out)

\* a quadrilateral was held, cleared by the 31st miss, and a candidate more than 150 px away
\* from it was then accepted
C25_Reacquired ==
    /\ smoothEv.kind = "hit"
    /\ smoothEv.before.FramesSinceDetected = ResetAfter + 1
    /\ Len(smoothEv.cleared) = 4
    /\ smoothEv.out = smoothEv.sortedNew
    /\ \A i \in 1..4 : DistanceExceeds(smoothEv.cleared[i], smoothEv.out[i], RelaxedJump)

(***************************************************************************)
(* pkg/vision: DetectBoard called on the contours of one edge image        *)
(***************************************************************************)

\* the most contours in one image
MaxContours == 2

\* rows * cols of the edge image
ImageArea == 100

\* contour areas: under 10% of the image, exactly 10%, and a larger one
ContourAreas == {9, 10, 20}

\* a quadrilateral whose diagonal from vertex 0 to vertex 2 has length 2*d1 and whose diagonal
\* from vertex 1 to vertex 3 has length 2*d2
Kite(d1, d2) == <<<<0, d2>>, <<d1, 0>>, <<2 * d1, d2>>, <<d1, 2 * d2>>>>

\* halves of the two diagonals of the quadrilaterals tried
DiagonalPairs == {<<4, 4>>, <<4, 5>>, <<5, 4>>, <<4, 3>>, <<3, 4>>,
                  <<10, 13>>, <<13, 10>>, <<3, 10>>}

\* polygon approximations: none, a triangle, a pentagon and the quadrilaterals
Approximations ==
    { <<>>, <<<<0, 0>>, <<8, 0>>, <<0, 8>>>>,
      <<<<0, 0>>, <<8, 0>>, <<9, 4>>, <<8, 8>>, <<0, 8>>>> }
    \cup {Kite(d[1], d[2]) : d \in DiagonalPairs}

Contours == [area : ContourAreas, approx : Approximations]

DetectInit ==
    /\ AppInit
    /\ InferIdle
    /\ ReorderIdle
    /\ SmoothIdle
    /\ callArg \in UNION {[1..n -> Contours] : n \in 0..MaxContours}
    /\ callRet = <<>>
    /\ callPc = "detect"

\* corners := DetectBoard(edges)
DetectCall ==
    /\ callPc = "detect"
    /\ callRet' = DetectBoard(ImageArea, callArg)
    /\ callPc' = "detected"
    /\ UNCHANGED <<callArg, appVars, inferVars, reorderVars, smoothVars>>

SpecDetect == DetectInit /\ [][DetectCall]_vars

\* |d1 - d2| is less than 25% of the longer diagonal, compared on the squares
WithinQuarterOfLonger(points) ==
    LET s1 == DistanceSquared(points[1], points[3])
        s2 == DistanceSquared(points[2], points[4])
    IN  IF s1 >= s2 THEN 9 * s1 < 16 * s2 ELSE 9 * s2 < 16 * s1

\* C26: a 4-vertex candidate (large enough, alone in the image) is accepted by DetectBoard
\* if and only if |d1 - d2| is less than 25% of the longer of its two diagonals
C26_AcceptedIffNearSquare ==
    (/\ callPc = "detected"
     /\ Len(callArg) = 1
     /\ ~TooSmall(callArg[1].area, ImageArea)
     /\ Len(callArg[1].approx) = 4)
    => (callRet = callArg[1].approx <=> WithinQuarterOfLonger(callArg[1].approx))

\* the contours DetectBoard may return: large enough, 4 vertices, near-square
ValidContours ==
    {i \in 1..Len(callArg) : /\ ~TooSmall(callArg[i].area, ImageArea)
                             /\ Len(callArg[i].approx) = 4
                             /\ NearSquare(callArg[i].approx)}

StdDevs == {0, 16, 17, 20, 21}

\* edge pixel counts around 3% and 6% of the ROI
EdgeCounts == {0, 108, 109, 216, 217}

SquareReadings == [sd : StdDevs, edgePixels : EdgeCounts]

ProbeSquares == {<<0, 0>>, <<4, 4>>, <<7, 7>>}

\* a frame reading m on square at and base everywhere else
FrameWith(base, at, m) ==
    [row \in Rows |-> [col \in Rows |-> IF <<row, col>> = at THEN m ELSE base]]

ScanFrames == {FrameWith(base, at, m) : base \in SquareReadings, at \in ProbeSquares,
                                        m \in SquareReadings}

\* the frames scanned after another one
NextFrames ==
    {FrameWith([sd |-> 20, edgePixels |-> 108], <<4, 4>>, m) :
        m \in {[sd |-> 17, edgePixels |-> 109], [sd |-> 16, edgePixels |-> 217],
                [sd |-> 21, edgePixels |-> 0], [sd |-> 17, edgePixels |-> 108]}}

ScanResult(frame) == [absolute |-> ScanBoardAbsolute(frame), debug |-> ScanBoardDebug(frame)]

ScanInit ==
    /\ AppInit
    /\ InferIdle
    /\ ReorderIdle
    /\ SmoothIdle
    /\ callArg \in ScanFrames
    /\ callRet = <<>>
    /\ callPc = "scan"

\* ScanBoardAbsolute(warped) and ScanBoardDebug(warped) on one frame
ScanCall ==
    /\ callPc = "scan"
    /\ callRet' = ScanResult(callArg)
    /\ callPc' = "scanned"
    /\ UNCHANGED <<callArg, appVars, inferVars, reorderVars, smoothVars>>

\* the same on the frame that follows
ScanNextFrame ==
    /\ callPc = "scanned"
    /\ \E frame \in NextFrames :
           /\ callArg' = frame
           /\ callRet' = ScanResult(frame)
    /\ callPc' = "rescanned"
    /\ UNCHANGED <<appVars, inferVars, reorderVars, smoothVars>>

ScanNext == ScanCall \/ ScanNextFrame

SpecScan == ScanInit /\ [][ScanNext]_vars

ConvertInit ==
    /\ AppInit
    /\ InferIdle
    /\ ReorderIdle
    /\ SmoothIdle
    /\ callArg \in ({"cell"} \X (Rows \X Rows)) \cup ({"square"} \X Squares)
    /\ callRet = <<>>
    /\ callPc = "convert"

\* sq := SquareFromRowCol(row, col), or row, col := RowColFromSquare(sq)
ConvertCall ==
    /\ callPc = "convert"
    /\ callRet' = IF callArg[1] = "cell"
                  THEN <<SquareFromRowCol(callArg[2][1], callArg[2][2])>>
                  ELSE <<RowColFromSquare(callArg[2])>>
    /\ callPc' = "converted"
    /\ UNCHANGED <<callArg, appVars, inferVars, reorderVars, smoothVars>>

\* the other conversion, on the result
ConvertBack ==
    /\ callPc = "converted"
    /\ callRet' = IF callArg[1] = "cell"
                  THEN Append(callRet, RowColFromSquare(callRet[1]))
                  ELSE Append(callRet, SquareFromRowCol(callRet[1][1], callRet[1][2]))
    /\ callPc' = "back"
    /\ UNCHANGED <<callArg, appVars, inferVars, reorderVars, smoothVars>>

ConvertNext == ConvertCall \/ ConvertBack

SpecConvert == ConvertInit /\ [][ConvertNext]_vars

\* C29: RowColFromSquare(SquareFromRowCol(row, col)) = (row, col) for all row, col in 0..7 and
\* SquareFromRowCol(RowColFromSquare(sq)) = sq for all 64 squares, with row 0 on rank 8 and
\* col 0 on file a: (0,0) = a8, (7,7) = h1, (6,4) = e2, (4,3) = d4
C29_SquareRoundTrip ==
    /\ callPc = "back" => callRet[2] = callArg[2]
    /\ (callPc \in {"converted", "back"} /\ callArg[1] = "cell")
       => /\ callRet[1] \in Squares
          /\ Rank(callRet[1]) + 1 = 8 - callArg[2][1]
          /\ File(callRet[1]) = callArg[2][2]
          /\ callArg[2] = <<0, 0>> => callRet[1] = A8
          /\ callArg[2] = <<7, 7>> => callRet[1] = H1
          /\ callArg[2] = <<6, 4>> => callRet[1] = E2
          /\ callArg[2] = <<4, 3>> => callRet[1] = D4
    /\ (callPc \in {"converted", "back"} /\ callArg[1] = "square")
       => callRet[1] \in Rows \X Rows

\* (6,4) went to e2 and came back
C29_E2AndBack ==
    /\ callPc = "back"
    /\ callArg = <<"cell", <<6, 4>>>>
    /\ callRet = <<E2, <<6, 4>>>>

(***************************************************************************)
(* pkg/chess: ExpectedOccupancy on a new game and on the positions of its  *)
(* first two moves                                                         *)
(***************************************************************************)

\* the positions one legal move after those of ps
After(ps) == UNION {{Update(pos, m) : m \in Range(ValidMoves(pos))} : pos \in ps}

OpeningPositions == {StartPos} \cup After({StartPos}) \cup After(After({StartPos}))

OccupancyInit ==
    /\ AppInit
    /\ InferIdle
    /\ ReorderIdle
    /\ SmoothIdle
    /\ callArg \in {GameAt(pos) : pos \in OpeningPositions \cup TestPositions}
    /\ callRet = <<>>
    /\ callPc = "occupancy"

\* expected := gs.ExpectedOccupancy()
OccupancyCall ==
    /\ callPc = "occupancy"
    /\ callRet' = ExpectedOccupancy(callArg)
    /\ callPc' = "expected"
    /\ UNCHANGED <<callArg, appVars, inferVars, reorderVars, smoothVars>>

SpecOccupancy == OccupancyInit /\ [][OccupancyCall]_vars

\* C30: ExpectedOccupancy()[row][col] is true if and only if the position has a piece on the
\* square of rank 8-row and file col; for a new game rows 0, 1, 6 and 7 are fully occupied and
\* rows 2 to 5 are empty
C30_OccupancyFollowsBoard ==
    callPc = "expected" =>
        /\ \A row, col \in Rows :
               callRet[row][col] <=> callArg.game.board[NewSquare(col, (8 - row) - 1)] # NoPiece
        /\ callArg.game = NewGame("White").game
           => \A row, col \in Rows : callRet[row][col] <=> row \in {0, 1, 6, 7}

\* after 1. e4 the grid has row 4, col 4 occupied and row 6, col 4 empty
C30_AfterE4 ==
    /\ callPc = "expected"
    /\ callArg.game = Update(StartPos, Mv(E2, E4, "none"))
    /\ callRet[4][4]
    /\ ~callRet[6][4]
    /\ callRet[1][4]

\* C38: for 4 pairwise distinct points the result of ReorderPoints is a permutation of its
\* input: no corner is duplicated and none is dropped
C38_ReorderIsPermutation ==
    (/\ reorderPc # "ready"
     /\ Len(reorderPts) = 4
     /\ Cardinality(PointsOf(reorderPts)) = 4)
    => (Len(reorderOut[1]) = 4 /\ PointsOf(reorderOut[1]) = PointsOf(reorderPts))

\* C37: at most one engine process is alive at any time: a game started after a finished one
\* does not leave the previous game's engine process running beside the new one, and the
\* engine the program holds, the one closed at exit, is the only one alive
C37_OneEngineProcess ==
    /\ engineProcs <= 1
    /\ stockfish = "nil" <=> engineProcs = 0

\* C35: after any sequence of frames, Start Game taps and engine events an invalid-move alert
\* loop is running if and only if the invalid-move flag is active, and at most one is running;
\* none is left running when a new game resets the flag
C35_AlertLoopIffFlag ==
    /\ alertLoops <= 1
    /\ alertLoops = 1 <=> invalidMoveActive
    /\ invalidMoveActive <=> invalidSoundStop = "open"

\* the alert is on in a second game
C35_AlertInSecondGame ==
    /\ session = 2
    /\ currentState = "statePlaying"
    /\ invalidMoveActive
    /\ alertLoops = 1

\* C36: the stop channel of the alert loop is closed at most once per channel, and close is
\* never executed on a nil or already closed channel
C36_CloseNeverPanics == ~panicked

\* a channel was made, closed by a valid move, and the game went on to its end
C36_ClosedThenGameOver ==
    /\ invalidSoundStop = "closed"
    /\ currentState = "stateGameOver"
    /\ ~invalidMoveActive

\* C32: the app state moves only PreGame -> Playing, Playing -> GameOver and
\* GameOver -> Playing; Playing is entered only by a Start Game tap on a
\* calibrated board, which installs the starting position with stableDiffCount 0,
\* settling false and the invalid-move flag false; a Start Game tap while
\* Playing or on an uncalibrated board starts nothing: position, session and
\* app state change by a tap only when no game is in progress and calibration
\* is done
C32_AppState ==
    /\ currentState' # currentState
          => <<currentState, currentState'>> \in
                {<<"statePreGame", "statePlaying">>, <<"statePlaying", "stateGameOver">>,
                 <<"stateGameOver", "statePlaying">>}
    /\ (currentState' # currentState /\ currentState' = "statePlaying")
          => /\ ev'.kind = "start"
             /\ calibMode = "calibDone"
             /\ \E c \in GameColors : gameState' = NewGame(c)
             /\ stableDiffCount' = 0
             /\ ~settling'
             /\ ~invalidMoveActive'
    /\ (session' # session \/ ev'.kind = "start")
          => /\ currentState # "statePlaying"
             /\ calibMode = "calibDone"
             /\ currentState' = "statePlaying"
    /\ (ev'.kind # "frame" /\ (currentState = "statePlaying" \/ calibMode # "calibDone"))
          => /\ gameState' = gameState
             /\ session' = session
             /\ currentState' = currentState
C32_AppStateTransitions == [][C32_AppState]_vars

\* C32 witness: a second game has been started from GameOver and is under way
C32_RestartedFromGameOver ==
    /\ session = 2
    /\ currentState = "statePlaying"
    /\ ev.kind = "start"
    /\ gameState = NewGame(gameState.HumanColor)

\* C33: mode Selecting implies fewer than 4 collected corners and mode Done
\* implies exactly 4 stored manual corners
C33_CalibOk ==
    /\ calibMode = "calibSelecting" => Len(calibCorners) < 4
    /\ calibMode = "calibDone" => Len(manualCorners) = 4

\* C33: the calibration state changes only by a Calibrate tap or by a corner
\* tap made in mode Selecting; a Calibrate tap leaves no collected corner and
\* mode Selecting whatever the mode was; mode Done is reached from Selecting
\* on the fourth corner; a frame that sees mode Done warps with the 4 stored
\* corners, and a frame that sees another mode does not warp
C33_Step ==
    /\ C33_CalibOk
    /\ C33_CalibOk'
    /\ (calibMode' # calibMode \/ calibCorners' # calibCorners)
          => (calibrations' # calibrations \/ calibMode = "calibSelecting")
    /\ calibrations' # calibrations
          => (calibMode' = "calibSelecting" /\ calibCorners' = <<>>)
    /\ (calibMode' = "calibDone" /\ calibMode # "calibDone")
          => /\ calibMode = "calibSelecting"
             /\ Len(calibCorners') = 4
             /\ manualCorners' = ReorderPoints(calibCorners')
    /\ (ev'.kind = "frame" /\ ev' # ev)
          => IF calibMode = "calibDone"
             THEN Len(ev'.warp) = 4 /\ ev'.warp = manualCorners
             ELSE ev'.warp = NilCorners
C33_CalibrationConsistent == [][C33_Step]_vars

\* C33 witness: after a restarted calibration was completed, a frame warps
\* with the 4 corners of the second calibration
C33_WarpedAfterRestart ==
    /\ calibrations = 2
    /\ calibMode = "calibDone"
    /\ ev.kind = "frame"
    /\ Len(ev.warp) = 4

\* C34: a restart of the calibration leaves the position, the app state, the
\* invalid-move flag and the debounce variables as they were, and a frame that
\* sees a calibration mode other than Done runs no debounce step, no inference
\* and no move application
C34_Step ==
    /\ calibrations' # calibrations
          => UNCHANGED <<gameState, currentState, invalidMoveActive, invalidSoundStop,
                         stableDiffCount, pendingOcc, settling, sinceSettleStart>>
    /\ (ev'.kind = "frame" /\ calibMode # "calibDone")
          => /\ ~ev'.logic
             /\ ev'.infer = "none"
             /\ ev'.applied = <<>>
             /\ ~ev'.started
             /\ ~ev'.aborted
             /\ UNCHANGED <<gameState, currentState, invalidMoveActive,
                            stableDiffCount, pendingOcc, settling>>
C34_CalibrationApartFromGame == [][C34_Step]_vars

\* C34 witness: a frame has passed in a game whose calibration was restarted
\* while a changed grid was being counted
C34_FrameDuringRecalibration ==
    /\ currentState = "statePlaying"
    /\ calibrations = 2
    /\ calibMode = "calibSelecting"
    /\ stableDiffCount > 0
    /\ ev.kind = "frame"

\* C31: an engine query in flight never holds up the frame loop, which can
\* take its next frame, runs the game logic on it and leaves the calls in
\* flight alone; a query ends, and its move is shown as recommended, only by
\* the step of its own task
C31_Step ==
    /\ (queries # {} /\ ~panicked) => FrameReady
    /\ (queries' # {} /\ ~panicked') => FrameReady'
    /\ (ev'.kind = "frame" /\ queries # {})
          => /\ ev'.logic = LogicRuns
             /\ queries \subseteq queries'
             /\ recommended' \in {recommended, NoRecommendation}
    /\ (\E q \in queries : q \notin queries')
          => /\ ev'.kind = "engine"
             /\ ev'.returned \in {<<q>> : q \in queries}
    /\ (recommended' # recommended /\ recommended'.shown)
          => (ev'.kind = "engine" /\ ev'.shown)
====
